---- MODULE Spec2Model ----
(***************************************************************************)
(* Model of the d7-celo-rpg bot: the turn scheduler (BotEngine.run and     *)
(* BotEngine.executeTurn), the oracle adapter (AIService.getDecision),     *)
(* the guardrail validator (BotEngine.validateAIDecision), the retrying    *)
(* executor (BlockchainService.executeTransaction) and the memory update   *)
(* (MemoryManager.updateMemory).                                           *)
(*                                                                         *)
(* The scheduler is one cooperative loop.  A state of the model is a point *)
(* where the loop is suspended on an await; an action is the resolution or *)
(* rejection of the awaited promise followed by all the synchronous code   *)
(* that runs up to the next await.                                         *)
(***************************************************************************)
EXTENDS Integers, Sequences, FiniteSets, TLC

VARIABLES
    simulationMode,  \* CONFIG.simulationMode
    memories,        \* BotEngine.memories: Map<address, GameMemory>
    actionCounter,   \* BotEngine.actionCounter
    reportCount,     \* number of generateReport() calls made by run()
    i,               \* loop index of the for loop of run()
    pc,              \* the await on which the scheduler is suspended
    turn,            \* locals of the executeTurn call in progress
    ai,              \* locals of the getDecision call of the turn
    ex,              \* locals of the executeTransaction call of the turn
    call,            \* a single call of a pure function (pure-function specs)
    disk,            \* the file bot-memories.json
    exit,            \* how the process ended, once it has
    pending          \* the promises the loop of run() has not seen settle yet

vars == <<simulationMode, memories, actionCounter, reportCount, i, pc, turn, ai, ex, call, disk, exit,
          pending>>

sched == <<simulationMode, memories, actionCounter, reportCount, i, pc, turn, ai, ex, disk, exit,
           pending>>

----------------------------------------------------------------------------
(* Bounds of the model *)

NumWallets == 2          \* size of the roster (wallets 0 .. NumWallets-1)
MaxTurns == 3            \* turns taken by run() before the model stops
MaxGuardLosses == 7      \* consecutiveLosses range of the guardrail inputs
MaxUpdates == 32         \* length of a sequence of updateMemory applications
MaxVaried == 5           \* outcomes of a sequence that are chosen freely
MaxEdits == 2            \* memory updates between the saves of a persistence run
MaxRestarts == 1         \* restarts of the process in a persistence run
MaxLongRun == 51         \* turns of a run followed for its reports
MaxRecorded == 1         \* outcomes recorded in a run followed for its reports
MaxPredictBattles == 7   \* battlesWon and battlesLost range of the prediction inputs
MaxPredictStreak == 5    \* consecutiveWins and consecutiveLosses range of the prediction inputs
MaxRoiPower == 3         \* strength and defense range of the item analysis inputs

(* Program constants *)

maxRetries == 3              \* CONFIG.behaviorSettings.maxRetries
aiMaxRetries == 3            \* CONFIG.aiSettings.maxRetries
reportInterval == 25         \* CONFIG.behaviorSettings.reportInterval
gasThresholdGwei == 50       \* CONFIG.behaviorSettings.gasThresholdGwei
minBalanceMilliEth == 5      \* CONFIG.behaviorSettings.minBalanceEth = '0.005'
maxConsecutiveLosses == 5    \* CONFIG.guardrails.maxConsecutiveLosses
minGoldForFight == 20        \* CONFIG.guardrails.minGoldForFight
maxGasGwei == 100            \* CONFIG.guardrails.maxGasGwei
txBackoffBaseMs == 3000      \* setTimeout(resolve, 3000 * attempt)
aiBackoffBaseMs == 2000      \* setTimeout(resolve, 2000 * attempt)
simulationDelayMs == 500     \* setTimeout(resolve, 500)
gasErrorGwei == 999          \* currentGwei reported when the gas query fails
recentActionsLimit == 30     \* recentActions.length > 30

Wallets == 0 .. (NumWallets - 1)

\* the address of the wallet at a roster position; the private keys differ
AddressOf(k) == k

itemShop ==
    [k \in 0..2 |->
        CASE k = 0 -> [id |-> 0, name |-> "Wooden Shield", cost |-> 50, strength |-> 0, defense |-> 5]
          [] k = 1 -> [id |-> 1, name |-> "Iron Sword", cost |-> 100, strength |-> 10, defense |-> 0]
          [] k = 2 -> [id |-> 2, name |-> "Steel Armor", cost |-> 250, strength |-> 5, defense |-> 20]]

----------------------------------------------------------------------------
(* Text.  A string is a sequence of words; toLowerCase maps each word to    *)
(* its lower-case form and includes() is a search for a run of words.       *)

LowerWord(w) ==
    CASE w = "NONCE" -> "nonce"
      [] w = "TOO" -> "too"
      [] w = "LOW" -> "low"
      [] w = "Not" -> "not"
      [] w = "Insufficient" -> "insufficient"
      [] w = "Already" -> "already"
      [] OTHER -> w

toLowerCase(s) == [k \in 1..Len(s) |-> LowerWord(s[k])]

includes(s, sub) ==
    \E k \in 0..(Len(s) - Len(sub)) : SubSeq(s, k + 1, k + Len(sub)) = sub

nonRetryableKeywords ==
    { <<"insufficient", "funds">>,
      <<"nonce", "too", "low">>,
      <<"replacement", "fee", "too", "low">>,
      <<"already", "exists">>,
      <<"not", "enough", "gold">> }

isNonRetryableError_caseSensitive(errorMsg) ==
    \E keyword \in nonRetryableKeywords : includes(errorMsg, keyword)

isNonRetryableError(errorMsg) ==
    LET lowerError == toLowerCase(errorMsg)
    IN  \E keyword \in nonRetryableKeywords : includes(lowerError, keyword)

(* A thrown value: error.reason and error.message, each possibly absent.   *)
Err(hasReason, reason, hasMessage, message) ==
    [hasReason |-> hasReason, reason |-> reason, hasMessage |-> hasMessage, message |-> message]

MsgErr(message) == Err(FALSE, <<>>, TRUE, message)

\* error.reason || error.message || 'Unknown transaction error'
errorMsgOf(error) ==
    IF error.hasReason /\ error.reason # <<>> THEN error.reason
    ELSE IF error.hasMessage /\ error.message # <<>> THEN error.message
    ELSE <<"Unknown", "transaction", "error">>

----------------------------------------------------------------------------
(* JavaScript values of the fields of a parsed oracle reply *)

JsUndefined == [t |-> "undefined", s |-> "", n |-> 0]
JsNull == [t |-> "null", s |-> "", n |-> 0]
JsStr(s) == [t |-> "string", s |-> s, n |-> 0]
JsNum(n) == [t |-> "number", s |-> "", n |-> n]

\* !v
Falsy(v) ==
    \/ v.t \in {"undefined", "null"}
    \/ v.t = "string" /\ v.s = ""
    \/ v.t = "number" /\ v.n = 0

(* AIDecision: action, optional itemId, reasoning *)
Decision(action, hasItemId, itemId, reasoning) ==
    [action |-> action, hasItemId |-> hasItemId, itemId |-> itemId, reasoning |-> reasoning]

NoDecision == Decision("", FALSE, 0, "")

fallbackDecision ==
    Decision("train", FALSE, 0,
             "AI service failed to get a valid response after all retries. Executing a safe fallback action.")

(* The content of an oracle reply: text that is not JSON, the JSON value   *)
(* null, or a JSON object with the three fields the validation reads.      *)
RawReply(form, action, reasoning, itemId) ==
    [form |-> form, action |-> action, reasoning |-> reasoning, itemId |-> itemId]

parseAndValidateResponse_noItemCheck(rawResponse) ==
    IF rawResponse.form # "object" THEN [ok |-> FALSE, decision |-> NoDecision]
    ELSE IF Falsy(rawResponse.action) \/ rawResponse.action.t # "string"
         THEN [ok |-> FALSE, decision |-> NoDecision]
    ELSE IF Falsy(rawResponse.reasoning) \/ rawResponse.reasoning.t # "string"
         THEN [ok |-> FALSE, decision |-> NoDecision]
    ELSE [ok |-> TRUE,
          decision |-> Decision(rawResponse.action.s,
                                rawResponse.itemId.t = "number",
                                rawResponse.itemId.n,
                                rawResponse.reasoning.s)]

parseAndValidateResponse(rawResponse) ==
    \* JSON.parse throws on text that is not JSON; reading a property of
    \* null throws; both are caught and give null
    IF rawResponse.form # "object" THEN [ok |-> FALSE, decision |-> NoDecision]
    ELSE IF Falsy(rawResponse.action) \/ rawResponse.action.t # "string"
         THEN [ok |-> FALSE, decision |-> NoDecision]
    ELSE IF Falsy(rawResponse.reasoning) \/ rawResponse.reasoning.t # "string"
         THEN [ok |-> FALSE, decision |-> NoDecision]
    ELSE IF rawResponse.itemId.t # "undefined" /\ rawResponse.itemId.t # "number"
         THEN [ok |-> FALSE, decision |-> NoDecision]
    ELSE [ok |-> TRUE,
          decision |-> Decision(rawResponse.action.s,
                                rawResponse.itemId.t = "number",
                                rawResponse.itemId.n,
                                rawResponse.reasoning.s)]

----------------------------------------------------------------------------
(* PlayerStats.gold is the decimal text of the on-ledger amount *)

RECURSIVE toDecimalString(_)
toDecimalString(n) ==
    IF n < 10 THEN <<n>> ELSE Append(toDecimalString(n \div 10), n % 10)

RECURSIVE parseInt(_)
parseInt(digits) ==
    IF Len(digits) = 0 THEN 0
    ELSE 10 * parseInt(SubSeq(digits, 1, Len(digits) - 1)) + digits[Len(digits)]

Stats(exists, gold, strength, defense) ==
    [exists |-> exists, gold |-> toDecimalString(gold),
     strength |-> toDecimalString(strength), defense |-> toDecimalString(defense)]

----------------------------------------------------------------------------
(* GameMemory and its update *)

initializeMemory ==
    [totalActions |-> 0, totalBattles |-> 0, battlesWon |-> 0, battlesLost |-> 0,
     goldEarned |-> 0, goldSpent |-> 0, itemsPurchased |-> <<>>, recentActions |-> <<>>,
     consecutiveWins |-> 0, consecutiveLosses |-> 0, bestWinStreak |-> 0]

Outcome(action, success, goldChange, expChange, timestamp) ==
    [action |-> action, success |-> success, goldChange |-> goldChange,
     expChange |-> expChange, timestamp |-> timestamp]

Max_second(a, b) == b

Max(a, b) == IF a >= b THEN a ELSE b

Abs_signed(a) == a

Abs(a) == IF a < 0 THEN -a ELSE a

\* recentActions.slice(-30)
LastN_oldest(s, n) == IF Len(s) > n THEN SubSeq(s, 1, n) ELSE s

LastN(s, n) == IF Len(s) > n THEN SubSeq(s, Len(s) - n + 1, Len(s)) ELSE s

updateMemory_noReset(currentMemory, outcome) ==
    LET pushed == Append(currentMemory.recentActions, outcome)
        recent == IF Len(pushed) > recentActionsLimit THEN LastN(pushed, recentActionsLimit) ELSE pushed
        fight == outcome.action = "fightMonster"
        won == fight /\ outcome.success
        lost == fight /\ ~outcome.success
        wins == IF won THEN currentMemory.consecutiveWins + 1
                ELSE currentMemory.consecutiveWins
    IN  [totalActions |-> currentMemory.totalActions + 1,
         totalBattles |-> currentMemory.totalBattles + (IF fight THEN 1 ELSE 0),
         battlesWon |-> currentMemory.battlesWon + (IF won THEN 1 ELSE 0),
         battlesLost |-> currentMemory.battlesLost + (IF lost THEN 1 ELSE 0),
         goldEarned |-> currentMemory.goldEarned + (IF outcome.goldChange > 0 THEN outcome.goldChange ELSE 0),
         goldSpent |-> currentMemory.goldSpent + (IF outcome.goldChange < 0 THEN Abs(outcome.goldChange) ELSE 0),
         itemsPurchased |-> currentMemory.itemsPurchased,
         recentActions |-> recent,
         consecutiveWins |-> wins,
         consecutiveLosses |-> IF lost THEN currentMemory.consecutiveLosses + 1
                               ELSE IF won THEN 0 ELSE currentMemory.consecutiveLosses,
         bestWinStreak |-> IF won THEN Max(currentMemory.bestWinStreak, wins)
                           ELSE currentMemory.bestWinStreak]

updateMemory_wonUncounted(currentMemory, outcome) ==
    LET pushed == Append(currentMemory.recentActions, outcome)
        recent == IF Len(pushed) > recentActionsLimit THEN LastN(pushed, recentActionsLimit) ELSE pushed
        fight == outcome.action = "fightMonster"
        won == fight /\ outcome.success
        lost == fight /\ ~outcome.success
        wins == IF won THEN currentMemory.consecutiveWins + 1
                ELSE IF lost THEN 0 ELSE currentMemory.consecutiveWins
    IN  [totalActions |-> currentMemory.totalActions + 1,
         totalBattles |-> currentMemory.totalBattles + (IF fight THEN 1 ELSE 0),
         battlesWon |-> currentMemory.battlesWon,
         battlesLost |-> currentMemory.battlesLost + (IF lost THEN 1 ELSE 0),
         goldEarned |-> currentMemory.goldEarned + (IF outcome.goldChange > 0 THEN outcome.goldChange ELSE 0),
         goldSpent |-> currentMemory.goldSpent + (IF outcome.goldChange < 0 THEN Abs(outcome.goldChange) ELSE 0),
         itemsPurchased |-> currentMemory.itemsPurchased,
         recentActions |-> recent,
         consecutiveWins |-> wins,
         consecutiveLosses |-> IF lost THEN currentMemory.consecutiveLosses + 1
                               ELSE IF won THEN 0 ELSE currentMemory.consecutiveLosses,
         bestWinStreak |-> IF won THEN Max(currentMemory.bestWinStreak, wins)
                           ELSE currentMemory.bestWinStreak]

updateMemory_itemRecorded(currentMemory, outcome) ==
    LET pushed == Append(currentMemory.recentActions, outcome)
        recent == IF Len(pushed) > recentActionsLimit THEN LastN(pushed, recentActionsLimit) ELSE pushed
        fight == outcome.action = "fightMonster"
        won == fight /\ outcome.success
        lost == fight /\ ~outcome.success
        wins == IF won THEN currentMemory.consecutiveWins + 1
                ELSE IF lost THEN 0 ELSE currentMemory.consecutiveWins
    IN  [totalActions |-> currentMemory.totalActions + 1,
         totalBattles |-> currentMemory.totalBattles + (IF fight THEN 1 ELSE 0),
         battlesWon |-> currentMemory.battlesWon + (IF won THEN 1 ELSE 0),
         battlesLost |-> currentMemory.battlesLost + (IF lost THEN 1 ELSE 0),
         goldEarned |-> currentMemory.goldEarned + (IF outcome.goldChange > 0 THEN outcome.goldChange ELSE 0),
         goldSpent |-> currentMemory.goldSpent + (IF outcome.goldChange < 0 THEN Abs(outcome.goldChange) ELSE 0),
         itemsPurchased |-> IF outcome.action = "buyItem" /\ outcome.success
                            THEN Append(currentMemory.itemsPurchased,
                                        [id |-> itemShop[0].id, name |-> itemShop[0].name, cost |-> itemShop[0].cost])
                            ELSE currentMemory.itemsPurchased,
         recentActions |-> recent,
         consecutiveWins |-> wins,
         consecutiveLosses |-> IF lost THEN currentMemory.consecutiveLosses + 1
                               ELSE IF won THEN 0 ELSE currentMemory.consecutiveLosses,
         bestWinStreak |-> IF won THEN Max(currentMemory.bestWinStreak, wins)
                           ELSE currentMemory.bestWinStreak]

updateMemory_trainResets(currentMemory, outcome) ==
    LET pushed == Append(currentMemory.recentActions, outcome)
        recent == IF Len(pushed) > recentActionsLimit THEN LastN(pushed, recentActionsLimit) ELSE pushed
        fight == outcome.action = "fightMonster"
        won == fight /\ outcome.success
        lost == fight /\ ~outcome.success
        wins == IF won THEN currentMemory.consecutiveWins + 1
                ELSE IF lost THEN 0 ELSE currentMemory.consecutiveWins
    IN  [totalActions |-> currentMemory.totalActions + 1,
         totalBattles |-> currentMemory.totalBattles + (IF fight THEN 1 ELSE 0),
         battlesWon |-> currentMemory.battlesWon + (IF won THEN 1 ELSE 0),
         battlesLost |-> currentMemory.battlesLost + (IF lost THEN 1 ELSE 0),
         goldEarned |-> currentMemory.goldEarned + (IF outcome.goldChange > 0 THEN outcome.goldChange ELSE 0),
         goldSpent |-> currentMemory.goldSpent + (IF outcome.goldChange < 0 THEN Abs(outcome.goldChange) ELSE 0),
         itemsPurchased |-> currentMemory.itemsPurchased,
         recentActions |-> recent,
         consecutiveWins |-> wins,
         consecutiveLosses |-> IF lost THEN currentMemory.consecutiveLosses + 1
                               ELSE IF won \/ outcome.action = "train" THEN 0
                               ELSE currentMemory.consecutiveLosses,
         bestWinStreak |-> IF won THEN Max(currentMemory.bestWinStreak, wins)
                           ELSE currentMemory.bestWinStreak]

updateMemory(currentMemory, outcome) ==
    LET pushed == Append(currentMemory.recentActions, outcome)
        recent == IF Len(pushed) > recentActionsLimit THEN LastN(pushed, recentActionsLimit) ELSE pushed
        fight == outcome.action = "fightMonster"
        won == fight /\ outcome.success
        lost == fight /\ ~outcome.success
        wins == IF won THEN currentMemory.consecutiveWins + 1
                ELSE IF lost THEN 0 ELSE currentMemory.consecutiveWins
    IN  [totalActions |-> currentMemory.totalActions + 1,
         totalBattles |-> currentMemory.totalBattles + (IF fight THEN 1 ELSE 0),
         battlesWon |-> currentMemory.battlesWon + (IF won THEN 1 ELSE 0),
         battlesLost |-> currentMemory.battlesLost + (IF lost THEN 1 ELSE 0),
         goldEarned |-> currentMemory.goldEarned + (IF outcome.goldChange > 0 THEN outcome.goldChange ELSE 0),
         goldSpent |-> currentMemory.goldSpent + (IF outcome.goldChange < 0 THEN Abs(outcome.goldChange) ELSE 0),
         itemsPurchased |-> currentMemory.itemsPurchased,
         recentActions |-> recent,
         consecutiveWins |-> wins,
         consecutiveLosses |-> IF lost THEN currentMemory.consecutiveLosses + 1
                               ELSE IF won THEN 0 ELSE currentMemory.consecutiveLosses,
         bestWinStreak |-> IF won THEN Max(currentMemory.bestWinStreak, wins)
                           ELSE currentMemory.bestWinStreak]

(* updateMemory copies the fields of currentMemory into a new object: the   *)
(* two arrays are copied by reference.  The push is made on the array that *)
(* the argument holds, and the slice gives the result an array of its own. *)

\* the object passed as currentMemory, as the call leaves it
updateMemoryArgument(currentMemory, outcome) ==
    [currentMemory EXCEPT !.recentActions = Append(@, outcome)]

\* the fields whose array the result holds in common with the argument
updateMemoryShared(currentMemory, outcome) ==
    {"itemsPurchased"} \cup
        (IF Len(currentMemory.recentActions) + 1 > recentActionsLimit
         THEN {} ELSE {"recentActions"})

\* won stands for Math.random() > 0.4 and now for Date.now()
simulateOutcome(action, won, now) ==
    CASE action = "fightMonster" ->
            Outcome(action, won, IF won THEN 40 ELSE -20, IF won THEN 25 ELSE 5, now)
      [] action = "train" -> Outcome(action, TRUE, 15, 10, now)
      [] OTHER -> Outcome(action, TRUE, 0, 0, now)

\* the memory left by k lost fights recorded on the zero-state, as a
\* persisted snapshot of an earlier run holds it
RECURSIVE LosingStreak(_)
LosingStreak(k) ==
    IF k = 0 THEN initializeMemory
    ELSE updateMemory(LosingStreak(k - 1), simulateOutcome("fightMonster", FALSE, 0))

\* this.memories.get(address) || this.memoryManager.initializeMemory()
MemoryOf(map, address) ==
    IF address \in DOMAIN map THEN map[address] ELSE initializeMemory

MapSet_sharedList(map, address, value) ==
    [a \in (DOMAIN map) \cup {address} |->
        IF a = address THEN value
        ELSE [map[a] EXCEPT !.recentActions = value.recentActions]]

\* this.memories.set(address, updatedMemory)
MapSet(map, address, value) ==
    [a \in (DOMAIN map) \cup {address} |-> IF a = address THEN value ELSE map[a]]

----------------------------------------------------------------------------
(* The memory file.  A file is absent, unreadable, text that JSON.parse     *)
(* refuses (any text, or the beginning of a document left by a write that  *)
(* did not finish), a JSON value that is not an array, or a JSON array.    *)
(* An element of an array is a pair [address, memory], a scalar, or an     *)
(* object without the indices 0 and 1.                                     *)

File(kind, items) == [kind |-> kind, items |-> items]

AbsentFile == File("absent", <<>>)

PairItem(address, memory) == [t |-> "pair", key |-> address, value |-> memory]

\* what element[0] and element[1] give on an object that has neither; the
\* key is written as an address no wallet has
noKey == 0 - 1
noValue == [undefined |-> TRUE]
ObjectItem == [t |-> "object", key |-> noKey, value |-> noValue]
ScalarItem == [t |-> "scalar", key |-> noKey, value |-> noValue]

\* Array.from(memories.entries()): the pairs of the map, by address
RECURSIVE EntriesFrom(_, _)
EntriesFrom(map, keys) ==
    IF keys = {} THEN <<>>
    ELSE LET k == CHOOSE x \in keys : \A y \in keys : x <= y
         IN  <<PairItem(k, map[k])>> \o EntriesFrom(map, keys \ {k})

\* JSON.stringify(Array.from(memories.entries()), null, 2)
stringify(map) == File("array", EntriesFrom(map, DOMAIN map))

\* new Map(parsedData): throws on an element that is not an object, reads
\* the indices 0 and 1 of the others, a later element replacing an earlier
\* one of the same key
NewMap(items) ==
    LET keys == {items[j].key : j \in 1..Len(items)}
    IN  [k \in keys |->
            LET last == CHOOSE j \in 1..Len(items) :
                            /\ items[j].key = k
                            /\ \A h \in (j + 1)..Len(items) : items[h].key # k
            IN  items[last].value]

loadMemories(file) ==
    IF file.kind = "absent" THEN <<>>
    \* readFileSync or JSON.parse threw: caught
    ELSE IF file.kind \in {"unreadable", "text", "partial"} THEN <<>>
    \* Array.isArray(parsedData) is false
    ELSE IF file.kind # "array" THEN <<>>
    \* new Map threw: caught
    ELSE IF \E j \in 1..Len(file.items) : file.items[j].t = "scalar" THEN <<>>
    ELSE NewMap(file.items)

\* the main file after a call of saveMemories: the snapshot of the map
\* when the write and the rename succeeded ("saved"), the file as it was
\* when one of them threw and was caught ("failed") or when the removal of
\* the temporary file threw in the catch block ("threw")
SaveOutcomes == {"saved", "failed", "threw"}

saveMemories(map, file, outcome) == IF outcome = "saved" THEN stringify(map) ELSE file

----------------------------------------------------------------------------
(* Guardrail validator *)

trainLossStreak == Decision("train", FALSE, 0, "Forced training to break a losing streak (Safety Override).")
trainLowGold == Decision("train", FALSE, 0, "Gold is too low to risk a fight (Safety Override).")
trainUnaffordable == Decision("train", FALSE, 0, "Cannot afford the item, training instead (Safety Override).")

validateAIDecision_strictLosses(decision, stats, memory) ==
    LET gold == parseInt(stats.gold)
    IN  IF decision.action = "fightMonster" /\ memory.consecutiveLosses > maxConsecutiveLosses
        THEN trainLossStreak
        ELSE IF decision.action = "fightMonster" /\ gold < minGoldForFight
        THEN trainLowGold
        ELSE IF /\ decision.action = "buyItem" /\ decision.hasItemId
                /\ decision.itemId \in DOMAIN itemShop
                /\ gold < itemShop[decision.itemId].cost
        THEN trainUnaffordable
        ELSE decision

validateAIDecision_noGoldRule(decision, stats, memory) ==
    LET gold == parseInt(stats.gold)
    IN  IF decision.action = "fightMonster" /\ memory.consecutiveLosses >= maxConsecutiveLosses
        THEN trainLossStreak
        ELSE IF /\ decision.action = "buyItem" /\ decision.hasItemId
                /\ decision.itemId \in DOMAIN itemShop
                /\ gold < itemShop[decision.itemId].cost
        THEN trainUnaffordable
        ELSE decision

validateAIDecision_cheapestItem(decision, stats, memory) ==
    LET gold == parseInt(stats.gold)
    IN  IF decision.action = "fightMonster" /\ memory.consecutiveLosses >= maxConsecutiveLosses
        THEN trainLossStreak
        ELSE IF decision.action = "fightMonster" /\ gold < minGoldForFight
        THEN trainLowGold
        ELSE IF /\ decision.action = "buyItem" /\ decision.hasItemId
                /\ decision.itemId \in DOMAIN itemShop
                /\ gold < itemShop[0].cost
        THEN trainUnaffordable
        ELSE decision

validateAIDecision_unknownItem(decision, stats, memory) ==
    LET gold == parseInt(stats.gold)
    IN  IF decision.action = "fightMonster" /\ memory.consecutiveLosses >= maxConsecutiveLosses
        THEN trainLossStreak
        ELSE IF decision.action = "fightMonster" /\ gold < minGoldForFight
        THEN trainLowGold
        ELSE IF /\ decision.action = "buyItem" /\ decision.hasItemId
                /\ (decision.itemId \notin DOMAIN itemShop
                      \/ gold < itemShop[decision.itemId].cost)
        THEN trainUnaffordable
        ELSE decision

validateAIDecision(decision, stats, memory) ==
    LET gold == parseInt(stats.gold)
    IN  IF decision.action = "fightMonster" /\ memory.consecutiveLosses >= maxConsecutiveLosses
        THEN trainLossStreak
        ELSE IF decision.action = "fightMonster" /\ gold < minGoldForFight
        THEN trainLowGold
        ELSE IF /\ decision.action = "buyItem" /\ decision.hasItemId
                \* const item = CONFIG.itemShop[decision.itemId]; item && ...
                /\ decision.itemId \in DOMAIN itemShop
                /\ gold < itemShop[decision.itemId].cost
        THEN trainUnaffordable
        ELSE decision

----------------------------------------------------------------------------
(* Inputs from the collaborators *)

\* provider.getFeeData(): a gas price in gwei, or a failed query
GasReadings ==
    {[ok |-> TRUE, gwei |-> g] : g \in {gasThresholdGwei, gasThresholdGwei + 1, maxGasGwei, maxGasGwei + 1}}
    \cup {[ok |-> FALSE, gwei |-> 0]}

\* provider.getBalance(): a balance in thousandths of an ether, or a failed query
BalanceReadings ==
    {[ok |-> TRUE, milliEth |-> b, error |-> <<>>] : b \in {minBalanceMilliEth - 1, minBalanceMilliEth}}
    \cup {[ok |-> FALSE, milliEth |-> 0, error |-> m] :
              m \in {<<"could", "not", "read", "balance">>, <<"Insufficient", "balance">>}}

\* the gas price of the network at the moment a contract call is made
SubmitPrices == {maxGasGwei, maxGasGwei + 1}

GoldValues == {19, 20, 250}

\* contract.players(address)
StatsReadings ==
    {Stats(FALSE, 0, 0, 0)} \cup {Stats(TRUE, g, 15, 15) : g \in GoldValues}

\* errors of contract calls and of tx.wait()
LedgerErrors ==
    { MsgErr(<<"timeout">>),
      MsgErr(<<"insufficient", "funds", "for", "gas">>),
      MsgErr(<<"Error:", "NONCE", "TOO", "LOW">>),
      Err(TRUE, <<"Not", "enough", "gold">>, TRUE, <<"execution", "reverted:", "Not", "enough", "gold">>),
      Err(TRUE, <<"execution", "reverted">>, TRUE, <<"nonce", "too", "low">>),
      Err(TRUE, <<>>, TRUE, <<"replacement", "fee", "too", "low">>),
      Err(TRUE, <<"player", "already", "exists">>, FALSE, <<>>),
      Err(FALSE, <<>>, FALSE, <<>>) }

NoErr == Err(FALSE, <<>>, FALSE, <<>>)

\* errors thrown by executeTransaction itself inside its try block
itemIdRequired == MsgErr(<<"itemId", "is", "required", "for", "buyItem">>)
unknownAction == MsgErr(<<"Unknown", "action">>)

\* the outcomes of one axios.post: a thrown error, an empty content, or a content
OracleOutcomes ==
    {[kind |-> "throw", raw |-> RawReply("notjson", JsUndefined, JsUndefined, JsUndefined)],
     [kind |-> "empty", raw |-> RawReply("notjson", JsUndefined, JsUndefined, JsUndefined)]}
    \cup
    {[kind |-> "content", raw |-> r] : r \in
        { RawReply("notjson", JsUndefined, JsUndefined, JsUndefined),
          RawReply("null", JsUndefined, JsUndefined, JsUndefined),
          RawReply("object", JsUndefined, JsStr("why"), JsUndefined),
          RawReply("object", JsNum(7), JsStr("why"), JsUndefined),
          RawReply("object", JsStr(""), JsStr("why"), JsUndefined),
          RawReply("object", JsStr("train"), JsUndefined, JsUndefined),
          RawReply("object", JsStr("train"), JsNum(1), JsUndefined),
          RawReply("object", JsStr("train"), JsStr(""), JsUndefined),
          RawReply("object", JsStr("buyItem"), JsStr("why"), JsStr("1")),
          RawReply("object", JsStr("buyItem"), JsStr("why"), JsNull),
          RawReply("object", JsStr("train"), JsStr("why"), JsUndefined),
          RawReply("object", JsStr("train"), JsStr("why"), JsNum(1)),
          RawReply("object", JsStr("fightMonster"), JsStr("why"), JsUndefined),
          RawReply("object", JsStr("wait"), JsStr("why"), JsUndefined),
          RawReply("object", JsStr("dance"), JsStr("why"), JsUndefined),
          RawReply("object", JsStr("buyItem"), JsStr("why"), JsUndefined),
          RawReply("object", JsStr("buyItem"), JsStr("why"), JsNum(2)),
          RawReply("object", JsStr("buyItem"), JsStr("why"), JsNum(3)) }}

\* the snapshots loadMemories() can find on disk: none, or one written by
\* an earlier run in which every wallet lost its last fights
LoadedMemories ==
    {<<>>} \cup {[w \in Wallets |-> LosingStreak(k)] : k \in {maxConsecutiveLosses - 1}}

----------------------------------------------------------------------------
(* Locals *)

\* the process is running
NoExit == [cause |-> "none", at |-> "none", flush |-> "none", log |-> <<>>, before |-> AbsentFile]

\* no answer of provider.getFeeData() yet
NoReading == [ok |-> TRUE, gwei |-> 0]

NoTurn ==
    [stats |-> Stats(FALSE, 0, 0, 0), memory |-> initializeMemory,
     aiDecision |-> NoDecision, validated |-> NoDecision,
     leg |-> "none", ended |-> "none", failed |-> "none", caught |-> <<>>, critical |-> FALSE,
     gasQueries |-> 0, gasReading |-> NoReading]

\* no axios.post has settled yet
NoOutcome == [kind |-> "none", raw |-> RawReply("notjson", JsUndefined, JsUndefined, JsUndefined)]

NoAI ==
    [attempt |-> 0, requests |-> 0, failures |-> 0, sleeps |-> <<>>, returned |-> FALSE,
     last |-> NoOutcome]

NoEx ==
    [action |-> "", walletIndex |-> noKey, hasItemId |-> FALSE, itemId |-> 0, attempt |-> 0,
     submitCalls |-> 0, submitGwei |-> 0, txSent |-> 0, gasQueries |-> 0, gasAboveMax |-> FALSE,
     balanceQueries |-> 0, balance |-> minBalanceMilliEth,
     sleeps |-> <<>>, lastError |-> NoErr, failedAttempts |-> 0, result |-> "none"]

analyzeGas_failOpen(reading) ==
    IF reading.ok
    THEN [currentGwei |-> reading.gwei, shouldWait |-> reading.gwei > gasThresholdGwei]
    ELSE [currentGwei |-> gasErrorGwei, shouldWait |-> FALSE]

\* gas analysis of BlockchainService.analyzeGas
analyzeGas(reading) ==
    IF reading.ok
    THEN [currentGwei |-> reading.gwei, shouldWait |-> reading.gwei > gasThresholdGwei]
    ELSE [currentGwei |-> gasErrorGwei, shouldWait |-> TRUE]

----------------------------------------------------------------------------
(* BattleIntelligence.predictBattleOutcome.  A probability is kept as the  *)
(* exact fraction num / den with den = 1000 * totalBattles when the history *)
(* term applies and den = 1000 otherwise: 0.005 is 5/1000, 0.2 is 200/1000, *)
(* 0.05 is 50/1000 and 0.07 is 70/1000.                                     *)

Fraction(num, den) == [num |-> num, den |-> den]

Min(a, b) == IF a <= b THEN a ELSE b

winProbBeforeClamp_historyFromFive(stats, memory) ==
    LET powerScore == parseInt(stats.strength) + parseInt(stats.defense)
        totalBattles == memory.battlesWon + memory.battlesLost
        unit == IF totalBattles >= 5 THEN totalBattles ELSE 1
        powerBonus == (powerScore - 20) * 5 * unit
        historyBonus == IF totalBattles >= 5
                        THEN 200 * memory.battlesWon - 100 * totalBattles
                        ELSE 0
        hot == IF memory.consecutiveWins >= 2 THEN memory.consecutiveWins * 50 * unit ELSE 0
        cold == IF memory.consecutiveLosses >= 2 THEN memory.consecutiveLosses * 70 * unit ELSE 0
    IN  Fraction(500 * unit + powerBonus + historyBonus + hot - cold, 1000 * unit)

\* winProb before the clamp
winProbBeforeClamp(stats, memory) ==
    LET strength == parseInt(stats.strength)
        defense == parseInt(stats.defense)
        powerScore == strength + defense
        totalBattles == memory.battlesWon + memory.battlesLost
        unit == IF totalBattles > 5 THEN totalBattles ELSE 1
        powerBonus == (powerScore - 20) * 5 * unit
        historyBonus == IF totalBattles > 5
                        THEN 200 * memory.battlesWon - 100 * totalBattles
                        ELSE 0
        hot == IF memory.consecutiveWins >= 2 THEN memory.consecutiveWins * 50 * unit ELSE 0
        cold == IF memory.consecutiveLosses >= 2 THEN memory.consecutiveLosses * 70 * unit ELSE 0
    IN  Fraction(500 * unit + powerBonus + historyBonus + hot - cold, 1000 * unit)

\* Math.max(0.05, Math.min(0.95, winProb))
clampWinProb(winProb) ==
    LET unit == winProb.den \div 1000
    IN  Fraction(Max(50 * unit, Min(950 * unit, winProb.num)), winProb.den)

\* the prediction returned for a win probability
BattlePrediction(winProb) ==
    [winProbability |-> winProb,
     expectedGoldChange |-> Fraction(60 * winProb.num - 20 * winProb.den, winProb.den),
     expectedXpChange |-> Fraction(25 * winProb.num + 5 * winProb.den, winProb.den),
     riskLevel |-> IF 10 * winProb.num > 7 * winProb.den THEN "low"
                   ELSE IF 100 * winProb.num > 45 * winProb.den THEN "medium"
                   ELSE "high"]

predictBattleOutcome_unclamped(stats, memory) ==
    BattlePrediction(winProbBeforeClamp(stats, memory))

predictBattleOutcome(stats, memory) ==
    BattlePrediction(clampWinProb(winProbBeforeClamp(stats, memory)))

----------------------------------------------------------------------------
(* BattleIntelligence.analyzeItemROI.  A number is a finite fraction, an   *)
(* infinity or NaN, as the division of the code produces them.              *)

Finite(num, den) == [kind |-> "finite", num |-> num, den |-> den]
PlusInfinity == [kind |-> "+Infinity", num |-> 1, den |-> 0]
NotANumber == [kind |-> "NaN", num |-> 0, den |-> 0]

\* a / b for integers a >= 0 and b >= 0
JsDivide(a, b) ==
    IF b # 0 THEN Finite(a, b)
    ELSE IF a > 0 THEN PlusInfinity
    ELSE NotANumber

\* x * (a / b) for a positive fraction a / b; x + c and x - c keep a
\* non-finite x as well
JsScale(x, a, b) == IF x.kind = "finite" THEN Finite(x.num * a, x.den * b) ELSE x

\* Math.ceil(cost / x) for a cost > 0 and an x > 0
CeilOfQuotient(cost, x) ==
    IF x.kind = "+Infinity" THEN 0
    ELSE (cost * x.den + x.num - 1) \div x.num

impracticalPayback == 999

analyzeItemROI(itemId, stats, memory) ==
    LET item == itemShop[itemId]
        isOwned == \E k \in 1..Len(memory.itemsPurchased) : memory.itemsPurchased[k].id = itemId
        isAffordable == parseInt(stats.gold) >= item.cost
        currentPower == parseInt(stats.strength) + parseInt(stats.defense)
        newPower == currentPower + item.strength + item.defense
        quotient == JsDivide(newPower, currentPower)
        powerIncrease == IF quotient.kind = "finite"
                         THEN Finite(quotient.num - quotient.den, quotient.den)
                         ELSE quotient
        expectedWinRateIncrease == JsScale(powerIncrease, 1, 2)
        avgGoldPerBattleIncrease == JsScale(expectedWinRateIncrease, 60, 1)
        positive == \/ avgGoldPerBattleIncrease.kind = "+Infinity"
                    \/ avgGoldPerBattleIncrease.kind = "finite" /\ avgGoldPerBattleIncrease.num > 0
        paybackBattles == IF positive THEN CeilOfQuotient(item.cost, avgGoldPerBattleIncrease)
                          ELSE impracticalPayback
        roiScore == Finite((item.strength + item.defense) * 100, item.cost)
    IN  [itemId |-> item.id, itemName |-> item.name, cost |-> item.cost,
         isOwned |-> isOwned, isAffordable |-> isAffordable,
         expectedWinRateIncrease |-> expectedWinRateIncrease,
         paybackBattles |-> paybackBattles,
         roiScore |-> roiScore,
         recommendation |-> IF roiScore.num > roiScore.den THEN "High Value"
                            ELSE IF 2 * roiScore.num > roiScore.den THEN "Good Value"
                            ELSE "Low Value"]

----------------------------------------------------------------------------
(* BotEngine.generateReport: one line per personality, from the memory of  *)
(* its address or from a zero-state memory that is not stored.              *)

ReportLine(memory) ==
    [actions |-> memory.totalActions,
     battles |-> memory.totalBattles,
     winRateTenths |-> IF memory.totalBattles > 0
                       THEN (memory.battlesWon * 2000 + memory.totalBattles)
                                \div (2 * memory.totalBattles)
                       ELSE 0,
     bestStreak |-> memory.bestWinStreak,
     netGold |-> memory.goldEarned - memory.goldSpent]

generateReport_storesDefaults(map) ==
    [map |-> [a \in {AddressOf(w) : w \in Wallets} |-> MemoryOf(map, a)],
     lines |-> [w \in Wallets |-> ReportLine(MemoryOf(map, AddressOf(w)))]]

\* the map after the report, and the lines logged
generateReport(map) ==
    [map |-> map,
     lines |-> [w \in Wallets |-> ReportLine(MemoryOf(map, AddressOf(w)))]]

----------------------------------------------------------------------------
(* The promises awaited by run() and by the calls it awaits.  A call or a  *)
(* timer is issued where the code reaches its await, and it settles in the  *)
(* step that resumes the code after that await.                             *)

Promise(name, wallet) == [call |-> name, wallet |-> wallet]

\* the call or timer awaited at a point of the loop
AwaitedAt(point) ==
    CASE point = "awaitGas" -> "getFeeData"
      [] point = "awaitStats" -> "players"
      [] point = "awaitAI" -> "axios.post"
      [] point = "awaitAISleep" -> "setTimeout"
      [] point = "awaitPreGas" -> "getFeeData"
      [] point = "awaitPreBalance" -> "getBalance"
      [] point = "awaitSubmit" -> "contract"
      [] point = "awaitConfirm" -> "tx.wait"
      [] point = "awaitBackoff" -> "setTimeout"
      [] point = "awaitSimDelay" -> "setTimeout"
      [] point = "awaitIdle" -> "setTimeout"
      [] point = "awaitTurn" -> "executeTurn"
      [] OTHER -> ""

Issued(point, wallet) ==
    IF AwaitedAt(point) = "" THEN <<>> ELSE <<Promise(AwaitedAt(point), wallet)>>

RECURSIVE Without(_, _)
\* the pending promises without the oldest one of a name
Without(promises, name) ==
    IF promises = <<>> THEN <<>>
    ELSE IF Head(promises).call = name THEN Tail(promises)
    ELSE <<Head(promises)>> \o Without(Tail(promises), name)

\* a confirmation wait given up by a timer of its own stays outstanding
Settled_raceTimeout(name) ==
    pending' = (IF name = "tx.wait" THEN pending ELSE Without(pending, name)) \o Issued(pc', i')

\* the awaited promise settled, and the code ran on to its next await
Settled(name) ==
    pending' = Without(pending, name) \o Issued(pc', i')

----------------------------------------------------------------------------
(* BotEngine.run: what follows the settling of executeTurn *)

\* actionCounter++, the periodic report, and the start of the idle delay
AfterTurn(t, a, e, mem) ==
    /\ turn' = t
    /\ ai' = a
    /\ ex' = e
    /\ memories' = IF (actionCounter + 1) % reportInterval = 0
                    THEN generateReport(mem).map ELSE mem
    /\ actionCounter' = actionCounter + 1
    /\ reportCount' = IF (actionCounter + 1) % reportInterval = 0
                      THEN reportCount + 1 ELSE reportCount
    /\ pc' = "awaitIdle"
    /\ UNCHANGED <<simulationMode, i, call, disk, exit>>

\* executeTurn returned
TurnReturns(how, t, a, e, mem) ==
    AfterTurn([t EXCEPT !.ended = how], a, e, mem)

CatchTurnError_uncaught(stage, message, t, a, e) ==
    /\ turn' = [t EXCEPT !.ended = "failed", !.failed = stage, !.caught = message,
                         !.critical = includes(message, <<"Insufficient", "balance">>)]
    /\ ai' = a
    /\ ex' = e
    /\ pc' = "crashed"
    /\ UNCHANGED <<simulationMode, memories, actionCounter, reportCount, i, call, disk, exit>>

\* executeTurn threw: the catch clause around it logs the message, and a
\* CRITICAL line when the message includes 'Insufficient balance'
CatchTurnError(stage, message, t, a, e) ==
    AfterTurn([t EXCEPT !.ended = "failed", !.failed = stage, !.caught = message,
                        !.critical = includes(message, <<"Insufficient", "balance">>)],
              a, e, memories)

----------------------------------------------------------------------------
(* BlockchainService.executeTransaction *)

KnownActions == {"createPlayer", "train", "fightMonster", "levelUp", "buyItem"}

backoffDelay_flat(attempt) == txBackoffBaseMs

backoffDelay(attempt) == txBackoffBaseMs * attempt

\* personalities.findIndex(p => p.address === address) for the personality
\* of roster position k: the first position that holds the same address
findIndex(k) == CHOOSE j \in Wallets : AddressOf(j) = AddressOf(k) /\ \A h \in 0..(j - 1) : AddressOf(h) # AddressOf(k)

\* the call threw to executeTurn, which does not catch
ExecutorRaises(stage, message, e) ==
    CatchTurnError(stage, message, turn, ai, [e EXCEPT !.result = "raised"])

ExecutorReturns_liveRecorded(result, e) ==
    LET done == [e EXCEPT !.result = result]
    IN  IF turn.leg = "create"
        THEN TurnReturns("created", turn, ai, done, memories)
        ELSE \E won \in BOOLEAN :
                LET outcome == simulateOutcome(turn.validated.action, won, actionCounter)
                    updatedMemory == updateMemory(turn.memory, outcome)
                IN  TurnReturns("executed", turn, ai, done, MapSet(memories, i, updatedMemory))

ExecutorReturns_pushOnly(result, e) ==
    LET done == [e EXCEPT !.result = result]
    IN  IF turn.leg = "create"
        THEN TurnReturns("created", turn, ai, done, memories)
        ELSE IF simulationMode
        THEN \E won \in BOOLEAN :
                LET outcome == simulateOutcome(turn.validated.action, won, actionCounter)
                IN  TurnReturns("executed", turn, ai, done,
                                MapSet(memories, i, updateMemoryArgument(turn.memory, outcome)))
        ELSE TurnReturns("executed", turn, ai, done, memories)

ExecutorReturns_createRecorded(result, e) ==
    LET done == [e EXCEPT !.result = result]
    IN  IF simulationMode
        THEN \E won \in BOOLEAN :
                LET outcome == simulateOutcome(turn.validated.action, won, actionCounter)
                    updatedMemory == updateMemory(turn.memory, outcome)
                IN  TurnReturns("executed", turn, ai, done, MapSet(memories, i, updatedMemory))
        ELSE TurnReturns("executed", turn, ai, done, memories)

\* the call returned to executeTurn: step 8 of the turn, then the return
ExecutorReturns(result, e) ==
    LET done == [e EXCEPT !.result = result]
    IN  IF turn.leg = "create"
        THEN TurnReturns("created", turn, ai, done, memories)
        ELSE IF simulationMode
        THEN \E won \in BOOLEAN :
                LET outcome == simulateOutcome(turn.validated.action, won, actionCounter)
                    updatedMemory == updateMemory(turn.memory, outcome)
                IN  TurnReturns("executed", turn, ai, done, MapSet(memories, i, updatedMemory))
        ELSE TurnReturns("executed", turn, ai, done, memories)

\* the catch block of an attempt
HandleFailure(error, e) ==
    LET errorMsg == errorMsgOf(error)
        failed == [e EXCEPT !.lastError = error, !.failedAttempts = @ + 1]
    IN  IF isNonRetryableError(errorMsg)
        THEN ExecutorRaises("executor", <<"Non-retryable", "error:">> \o errorMsg, failed)
        ELSE IF e.attempt = maxRetries
        THEN ExecutorRaises("executor", <<"failed", "after", "all", "retries">>, failed)
        ELSE /\ ex' = [failed EXCEPT !.sleeps = Append(@, backoffDelay(e.attempt))]
             /\ pc' = "awaitBackoff"
             /\ UNCHANGED <<simulationMode, memories, actionCounter, reportCount, i, turn, ai, call, disk, exit>>

\* the try block of an attempt, up to the contract call
BeginAttempt(e) ==
    IF e.action = "buyItem" /\ ~e.hasItemId
    THEN HandleFailure(itemIdRequired, e)
    ELSE IF e.action \notin KnownActions
    THEN HandleFailure(unknownAction, e)
    ELSE /\ \E price \in SubmitPrices :
              ex' = [e EXCEPT !.submitCalls = @ + 1, !.submitGwei = price]
         /\ pc' = "awaitSubmit"
         /\ UNCHANGED <<simulationMode, memories, actionCounter, reportCount, i, turn, ai, call, disk, exit>>

StartExecutor_alwaysLive(action, hasItemId, itemId, t, a) ==
    /\ turn' = t
    /\ ai' = a
    /\ ex' = [NoEx EXCEPT !.action = action, !.walletIndex = findIndex(i),
                             !.hasItemId = hasItemId, !.itemId = itemId]
    /\ pc' = "awaitPreGas"
    /\ UNCHANGED <<simulationMode, memories, actionCounter, reportCount, i, call, disk, exit>>

\* the entry of executeTransaction, up to its first await
StartExecutor(action, hasItemId, itemId, t, a) ==
    LET e == [NoEx EXCEPT !.action = action, !.walletIndex = findIndex(i),
                             !.hasItemId = hasItemId, !.itemId = itemId]
    IN  /\ turn' = t
        /\ ai' = a
        /\ IF ~simulationMode
           THEN /\ ex' = e
                /\ pc' = "awaitPreGas"
           ELSE /\ ex' = [e EXCEPT !.attempt = 1, !.sleeps = <<simulationDelayMs>>]
                /\ pc' = "awaitSimDelay"
        /\ UNCHANGED <<simulationMode, memories, actionCounter, reportCount, i, call, disk, exit>>

\* performPreFlightChecks: the gas analysis returned
PreFlightGasChecked ==
    /\ pc = "awaitPreGas"
    /\ \E r \in GasReadings :
        LET gas == analyzeGas(r)
            e == [ex EXCEPT !.gasQueries = @ + 1, !.gasAboveMax = r.ok /\ r.gwei > maxGasGwei]
        IN  IF gas.currentGwei > maxGasGwei
            THEN ExecutorRaises("preflight", <<"Gas", "price", "is", "critically", "high">>, e)
            ELSE /\ ex' = e
                 /\ pc' = "awaitPreBalance"
                 /\ UNCHANGED <<simulationMode, memories, actionCounter, reportCount, i, turn, ai, call, disk, exit>>
    /\ Settled("getFeeData")

\* performPreFlightChecks: the balance query settled; the balance is only logged
PreFlightBalanceRead ==
    /\ pc = "awaitPreBalance"
    /\ \E r \in BalanceReadings :
        LET e == [ex EXCEPT !.balanceQueries = @ + 1, !.balance = r.milliEth]
        IN  IF ~r.ok
            THEN ExecutorRaises("preflight", r.error, e)
            ELSE BeginAttempt([e EXCEPT !.attempt = 1])
    /\ Settled("getBalance")

\* the contract call settled: with a transaction sent to the ledger, or with an error
SubmitSettled ==
    /\ pc = "awaitSubmit"
    /\ \/ /\ ex' = [ex EXCEPT !.txSent = @ + 1]
          /\ pc' = "awaitConfirm"
          /\ UNCHANGED <<simulationMode, memories, actionCounter, reportCount, i, turn, ai, call, disk, exit>>
       \/ \E error \in LedgerErrors : HandleFailure(error, ex)
    /\ Settled("contract")

\* tx.wait() settled
ConfirmSettled ==
    /\ pc = "awaitConfirm"
    /\ \/ ExecutorReturns("receipt", ex)
       \/ \E error \in LedgerErrors : HandleFailure(error, ex)
    /\ Settled("tx.wait")

\* the backoff sleep of the catch block ended: attempt++
BackoffElapsed ==
    /\ pc = "awaitBackoff"
    /\ BeginAttempt([ex EXCEPT !.attempt = @ + 1])
    /\ Settled("setTimeout")

\* the fixed delay of simulation mode ended: return null
SimDelayElapsed ==
    /\ pc = "awaitSimDelay"
    /\ ExecutorReturns("null", ex)
    /\ Settled("setTimeout")

----------------------------------------------------------------------------
(* AIService.getDecision returns: its promise resolves with the decision  *)
(* and the continuation of executeTurn is queued.                          *)

Decide(decision, a) ==
    /\ turn' = [turn EXCEPT !.aiDecision = decision]
    /\ ai' = [a EXCEPT !.returned = TRUE]
    /\ pc' = "awaitDecision"
    /\ UNCHANGED <<simulationMode, memories, actionCounter, reportCount, i, ex, call, disk, exit>>

----------------------------------------------------------------------------
(* AIService.getDecision *)

aiBackoffDelay(attempt) == aiBackoffBaseMs * attempt

\* the end of a loop iteration: attempt++, then the loop test
NextOracleAttempt(a) ==
    IF a.attempt + 1 <= aiMaxRetries
    THEN /\ ai' = [a EXCEPT !.attempt = @ + 1, !.requests = @ + 1]
         /\ pc' = "awaitAI"
         /\ UNCHANGED <<simulationMode, memories, actionCounter, reportCount, i, turn, ex, call, disk, exit>>
    ELSE Decide(fallbackDecision, a)

OracleCatch_propagates(a) ==
    CatchTurnError("oracle", <<"oracle", "request", "failed">>, turn, a, ex)

\* the catch block of an iteration: axios.post rejected or the reply had no choices
OracleCatch(a) ==
    IF a.attempt = aiMaxRetries
    THEN Decide(fallbackDecision, a)
    ELSE /\ ai' = [a EXCEPT !.sleeps = Append(@, aiBackoffDelay(a.attempt))]
         /\ pc' = "awaitAISleep"
         /\ UNCHANGED <<simulationMode, memories, actionCounter, reportCount, i, turn, ex, call, disk, exit>>

\* axios.post settled
OracleReplied ==
    /\ pc = "awaitAI"
    /\ \E o \in OracleOutcomes :
        LET settled == [ai EXCEPT !.last = o]
            failed == [settled EXCEPT !.failures = @ + 1]
            parsedDecision == parseAndValidateResponse(o.raw)
        IN  IF o.kind = "throw" THEN OracleCatch(failed)
            ELSE IF o.kind = "empty" THEN NextOracleAttempt(failed)
            ELSE IF parsedDecision.ok THEN Decide(parsedDecision.decision, settled)
            ELSE NextOracleAttempt(failed)
    /\ Settled("axios.post")

\* the backoff sleep of the catch block ended
OracleBackoffElapsed ==
    /\ pc = "awaitAISleep"
    /\ NextOracleAttempt(ai)
    /\ Settled("setTimeout")

----------------------------------------------------------------------------
(* BotEngine.executeTurn, steps 1 to 5 *)

\* step 1 (live mode only): analyzeGas returned
GasChecked ==
    /\ pc = "awaitGas"
    /\ \E r \in GasReadings :
        LET gasCheck == analyzeGas(r)
            t == [turn EXCEPT !.gasQueries = @ + 1, !.gasReading = r]
        IN  IF gasCheck.shouldWait
            THEN TurnReturns("skipped", t, ai, ex, memories)
            ELSE /\ turn' = t
                 /\ pc' = "awaitStats"
                 /\ UNCHANGED <<simulationMode, memories, actionCounter, reportCount, i, ai, ex, call, disk, exit>>
    /\ Settled("getFeeData")

\* steps 2 to 5: getPlayerStats settled
StatsFetched ==
    /\ pc = "awaitStats"
    /\ \/ CatchTurnError("fetch", <<"Could", "not", "fetch", "player", "data">>, turn, ai, ex)
       \/ \E stats \in StatsReadings :
            LET t == [turn EXCEPT !.stats = stats, !.memory = MemoryOf(memories, i)]
            IN  IF ~stats.exists
                THEN StartExecutor("createPlayer", FALSE, 0, [t EXCEPT !.leg = "create"], ai)
                ELSE \* getStrategicAnalysis is total; getDecision issues its first request
                     /\ turn' = [t EXCEPT !.leg = "normal"]
                     /\ ai' = [NoAI EXCEPT !.attempt = 1, !.requests = 1]
                     /\ pc' = "awaitAI"
                     /\ UNCHANGED <<simulationMode, memories, actionCounter, reportCount, i, ex, call, disk, exit>>
    /\ Settled("players")

DecisionReturned_waitExecuted ==
    /\ pc = "awaitDecision"
    /\ LET validatedDecision == validateAIDecision(turn.aiDecision, turn.stats, turn.memory)
           t == [turn EXCEPT !.validated = validatedDecision]
       IN  StartExecutor(validatedDecision.action, validatedDecision.hasItemId,
                         validatedDecision.itemId, t, NoAI)
    /\ Settled("")

\* steps 6 and 7: executeTurn resumes with the decision of getDecision
DecisionReturned ==
    /\ pc = "awaitDecision"
    /\ LET validatedDecision == validateAIDecision(turn.aiDecision, turn.stats, turn.memory)
           t == [turn EXCEPT !.validated = validatedDecision]
       IN  IF validatedDecision.action = "wait"
           THEN TurnReturns("waited", t, NoAI, ex, memories)
           ELSE StartExecutor(validatedDecision.action, validatedDecision.hasItemId,
                              validatedDecision.itemId, t, NoAI)
    /\ Settled("")

IdleElapsed_noWrap ==
    /\ pc = "awaitIdle"
    /\ actionCounter < MaxTurns
    /\ i' = IF i + 1 < NumWallets THEN i + 1 ELSE i
    /\ turn' = NoTurn
    /\ ai' = NoAI
    /\ ex' = NoEx
    /\ pc' = IF simulationMode THEN "awaitStats" ELSE "awaitGas"
    /\ UNCHANGED <<simulationMode, memories, actionCounter, reportCount, call, disk, exit>>
    /\ Settled("setTimeout")

\* the idle delay ended: the next iteration of the for loop (of the while loop)
IdleElapsed ==
    /\ pc = "awaitIdle"
    /\ actionCounter < MaxTurns
    /\ i' = IF i + 1 < NumWallets THEN i + 1 ELSE 0
    /\ turn' = NoTurn
    /\ ai' = NoAI
    /\ ex' = NoEx
    /\ pc' = IF simulationMode THEN "awaitStats" ELSE "awaitGas"
    /\ UNCHANGED <<simulationMode, memories, actionCounter, reportCount, call, disk, exit>>
    /\ Settled("setTimeout")

----------------------------------------------------------------------------
(* BotEngine.setupGracefulShutdown: the callbacks of the save timer and of *)
(* the termination signals.  They run when the scheduler is suspended.     *)

Running == pc \notin {"none", "exited", "crashed"}

\* the awaits of a turn on an external call
AwaitedCalls ==
    {"awaitGas", "awaitStats", "awaitAI", "awaitPreGas", "awaitPreBalance", "awaitSubmit", "awaitConfirm"}

\* the process ends: its pending calls and its locals are gone
ProcessEnds(cause, flush, log, map) ==
    /\ exit' = [cause |-> cause, at |-> pc, flush |-> flush, log |-> log, before |-> disk]
    /\ pc' = "exited"
    /\ turn' = NoTurn
    /\ ai' = NoAI
    /\ ex' = NoEx
    /\ pending' = <<>>
    /\ memories' = map
    /\ UNCHANGED <<simulationMode, actionCounter, reportCount, i, call>>

\* setInterval(() => saveMemories(memories), 300000); an exception that
\* leaves the callback ends the process
AutoSaveFired ==
    /\ Running
    /\ \E outcome \in SaveOutcomes :
        /\ disk' = saveMemories(memories, disk, outcome)
        /\ IF outcome = "threw"
           THEN ProcessEnds("uncaughtException", outcome, <<"flush">>, memories)
           ELSE UNCHANGED <<simulationMode, memories, actionCounter, reportCount, i, pc,
                            turn, ai, ex, call, exit, pending>>

SignalReceived_noFlush ==
    /\ Running
    /\ disk' = disk
    /\ ProcessEnds("signal", "saved", <<"report", "exit">>, generateReport(memories).map)

\* shutdown(), the one handler of SIGINT and of SIGTERM: saveMemories,
\* generateReport, process.exit(0); an exception that leaves saveMemories
\* ends the handler and the process before the report
SignalReceived ==
    /\ Running
    /\ \E outcome \in SaveOutcomes :
        /\ disk' = saveMemories(memories, disk, outcome)
        /\ ProcessEnds("signal", outcome,
                       IF outcome = "threw" THEN <<"flush">>
                       ELSE <<"flush", "report", "exit">>,
                       IF outcome = "threw" THEN memories
                       ELSE generateReport(memories).map)

----------------------------------------------------------------------------
NoCall == [op |-> "none"]

Init ==
    /\ simulationMode \in BOOLEAN
    /\ \E m \in LoadedMemories :
        /\ disk = (IF m = <<>> THEN AbsentFile ELSE stringify(m))
        /\ memories = loadMemories(disk)
    /\ exit = NoExit
    /\ actionCounter = 0
    /\ reportCount = 0
    /\ i = 0
    /\ pc = IF simulationMode THEN "awaitStats" ELSE "awaitGas"
    /\ turn = NoTurn
    /\ ai = NoAI
    /\ ex = NoEx
    /\ pending = Issued(pc, i)
    /\ call = NoCall

Next ==
    \/ GasChecked
    \/ StatsFetched
    \/ OracleReplied
    \/ OracleBackoffElapsed
    \/ DecisionReturned
    \/ PreFlightGasChecked
    \/ PreFlightBalanceRead
    \/ SubmitSettled
    \/ ConfirmSettled
    \/ BackoffElapsed
    \/ SimDelayElapsed
    \/ IdleElapsed
    \/ AutoSaveFired
    \/ SignalReceived

Spec == Init /\ [][Next]_vars

\* a step of the loop of run(): the promise the loop is suspended on settles
\* and its continuation runs
LoopStep ==
    \/ GasChecked
    \/ StatsFetched
    \/ OracleReplied
    \/ OracleBackoffElapsed
    \/ DecisionReturned
    \/ PreFlightGasChecked
    \/ PreFlightBalanceRead
    \/ SubmitSettled
    \/ ConfirmSettled
    \/ BackoffElapsed
    \/ SimDelayElapsed
    \/ IdleElapsed

\* the loop alone, with every call and every delay it awaits settling in
\* the end; the callbacks of the save timer and of the signals, which write
\* the file or end the process, are left to Spec
FairSpec == Init /\ [][LoopStep]_vars /\ WF_vars(LoopStep)

----------------------------------------------------------------------------
(* The guardrail validator as a function: one call on inputs drawn from    *)
(* bounded sets.                                                           *)

GuardActions == {"createPlayer", "train", "fightMonster", "buyItem", "levelUp", "wait", "dance"}

GuardDecisions ==
    {Decision(a, FALSE, 0, "why") : a \in GuardActions}
    \cup {Decision(a, TRUE, k, "why") : a \in GuardActions, k \in 0..3}

GuardGold == {0, 19, 20, 49, 50, 99, 100, 249, 250, 1000}

GuardStats == {Stats(TRUE, g, st, df) : g \in GuardGold, st \in {0, 15}, df \in {0, 15}}

GuardMemories == {LosingStreak(k) : k \in 0..MaxGuardLosses}

SchedulerIdle ==
    /\ simulationMode = FALSE
    /\ disk = AbsentFile
    /\ exit = NoExit
    /\ memories = <<>>
    /\ actionCounter = 0
    /\ reportCount = 0
    /\ i = 0
    /\ pc = "none"
    /\ turn = NoTurn
    /\ ai = NoAI
    /\ ex = NoEx
    /\ pending = <<>>

GuardInit ==
    /\ SchedulerIdle
    /\ \E d \in GuardDecisions, st \in GuardStats, m \in GuardMemories :
         call = [op |-> "validateAIDecision", decision |-> d, stats |-> st, memory |-> m,
                 done |-> FALSE, result |-> NoDecision]

ApplyGuardrail ==
    /\ call.op = "validateAIDecision"
    /\ ~call.done
    /\ call' = [call EXCEPT !.done = TRUE,
                            !.result = validateAIDecision(call.decision, call.stats, call.memory)]
    /\ UNCHANGED sched

GuardNext == ApplyGuardrail

GuardSpec == GuardInit /\ [][GuardNext]_vars

----------------------------------------------------------------------------
(* The battle prediction as a function: one call on stats and a history    *)
(* drawn from bounded sets.                                                 *)

PredictPowers == {0, 10, 15, 200}

PredictStats == {Stats(TRUE, 100, st, df) : st \in PredictPowers, df \in PredictPowers}

PredictMemories ==
    {[initializeMemory EXCEPT !.battlesWon = won, !.battlesLost = lost,
                              !.totalBattles = won + lost,
                              !.consecutiveWins = cw, !.consecutiveLosses = cl] :
        won \in 0..MaxPredictBattles, lost \in 0..MaxPredictBattles,
        cw \in 0..MaxPredictStreak, cl \in 0..MaxPredictStreak}

NoPrediction == BattlePrediction(Fraction(0, 1))

PredictInit ==
    /\ SchedulerIdle
    /\ \E st \in PredictStats, m \in PredictMemories :
         call = [op |-> "predictBattleOutcome", stats |-> st, memory |-> m,
                 done |-> FALSE, result |-> NoPrediction]

Predict ==
    /\ call.op = "predictBattleOutcome"
    /\ ~call.done
    /\ call' = [call EXCEPT !.done = TRUE,
                            !.result = predictBattleOutcome(call.stats, call.memory)]
    /\ UNCHANGED sched

PredictNext == Predict

PredictSpec == PredictInit /\ [][PredictNext]_vars

----------------------------------------------------------------------------
(* The item analysis as a function: one call for an item of the catalog on *)
(* stats drawn from a bounded set, as getStrategicAnalysis makes it.        *)

RoiStats ==
    {Stats(TRUE, g, st, df) : g \in {49, 50, 250}, st \in 0..MaxRoiPower, df \in 0..MaxRoiPower}

RoiInit ==
    /\ SchedulerIdle
    /\ \E itemId \in DOMAIN itemShop, st \in RoiStats :
         call = [op |-> "analyzeItemROI", itemId |-> itemId, stats |-> st,
                 memory |-> initializeMemory, done |-> FALSE, result |-> <<>>]

AnalyzeItem ==
    /\ call.op = "analyzeItemROI"
    /\ ~call.done
    /\ call' = [call EXCEPT !.done = TRUE,
                            !.result = analyzeItemROI(call.itemId, call.stats, call.memory)]
    /\ UNCHANGED sched

RoiSpec == RoiInit /\ [][AnalyzeItem]_vars

----------------------------------------------------------------------------
(* The memory update as a function: the update step of executeTurn         *)
(* (memories.get, updateMemory, memories.set) applied again and again to   *)
(* one wallet, starting from the zero-state, on outcomes drawn from a      *)
(* bounded set.  The first MaxVaried outcomes are any of UpdateKinds; the  *)
(* later ones repeat the kind of the outcome before them.                  *)

UpdateKinds ==
    { [action |-> "fightMonster", success |-> TRUE, goldChange |-> 40, expChange |-> 25],
      [action |-> "fightMonster", success |-> FALSE, goldChange |-> -20, expChange |-> 5],
      [action |-> "train", success |-> TRUE, goldChange |-> 15, expChange |-> 10],
      [action |-> "levelUp", success |-> TRUE, goldChange |-> 0, expChange |-> 0],
      [action |-> "buyItem", success |-> TRUE, goldChange |-> 0, expChange |-> 0] }

KindOf(outcome) ==
    [action |-> outcome.action, success |-> outcome.success,
     goldChange |-> outcome.goldChange, expChange |-> outcome.expChange]

MemoryInit ==
    /\ SchedulerIdle
    /\ call = [op |-> "updateMemory", n |-> 0, applied |-> <<>>,
               input |-> initializeMemory, argument |-> initializeMemory,
               shared |-> {}, maxWins |-> 0]

RecordOutcome ==
    /\ call.op = "updateMemory"
    /\ call.n < MaxUpdates
    /\ \E k \in UpdateKinds :
        /\ call.n >= MaxVaried => k = KindOf(call.applied[call.n])
        /\ LET outcome == Outcome(k.action, k.success, k.goldChange, k.expChange, call.n + 1)
               memory == MemoryOf(memories, i)
               updatedMemory == updateMemory(memory, outcome)
           IN  /\ memories' = MapSet(memories, i, updatedMemory)
               /\ call' = [call EXCEPT !.n = @ + 1,
                                       !.applied = Append(@, outcome),
                                       !.input = memory,
                                       !.argument = updateMemoryArgument(memory, outcome),
                                       !.shared = updateMemoryShared(memory, outcome),
                                       !.maxWins = IF updatedMemory.consecutiveWins > @
                                                   THEN updatedMemory.consecutiveWins ELSE @]
    /\ UNCHANGED <<simulationMode, actionCounter, reportCount, i, pc, turn, ai, ex, disk, exit, pending>>

MemoryNext == RecordOutcome

MemorySpec == MemoryInit /\ [][MemoryNext]_vars

----------------------------------------------------------------------------
(* MemoryManager.saveMemories and loadMemories on the two files.  A save   *)
(* is followed file operation by file operation, since the process can     *)
(* stop between two of them; a restarted process loads the main file.      *)

\* what a process can find in the main file when it starts
PersistFiles ==
    { AbsentFile,
      File("unreadable", <<>>),
      File("text", <<>>),
      File("json", <<>>),
      File("array", <<>>),
      File("array", <<ScalarItem>>),
      File("array", <<ObjectItem>>),
      stringify([w \in Wallets |-> LosingStreak(1)]) }

PersistInit ==
    /\ simulationMode = TRUE
    /\ disk = AbsentFile
    /\ exit = NoExit
    /\ actionCounter = 0
    /\ reportCount = 0
    /\ i = 0
    /\ pc = "none"
    /\ turn = NoTurn
    /\ ai = NoAI
    /\ ex = NoEx
    /\ pending = <<>>
    /\ \E file \in PersistFiles :
        /\ memories = loadMemories(file)
        /\ call = [op |-> "persist", main |-> file, temp |-> AbsentFile, step |-> "idle",
                   booted |-> file, prev |-> file, saving |-> loadMemories(file),
                   lastSave |-> "none", hasPersisted |-> FALSE, persisted |-> <<>>,
                   edits |-> 0, restarts |-> 0]

\* step 8 of a simulated turn of some wallet, between two saves
TurnRecorded ==
    /\ call.op = "persist"
    /\ call.step = "idle"
    /\ call.edits < MaxEdits
    /\ \E w \in Wallets :
        LET outcome == simulateOutcome("train", TRUE, call.edits)
        IN  memories' = MapSet(memories, w, updateMemory(MemoryOf(memories, w), outcome))
    /\ call' = [call EXCEPT !.edits = @ + 1]
    /\ UNCHANGED <<simulationMode, actionCounter, reportCount, i, pc, turn, ai, ex, disk, exit, pending>>

SaveWritesTemp_inPlace ==
    /\ call.op = "persist"
    /\ call.step = "idle"
    /\ LET data == stringify(memories)
           began == [call EXCEPT !.prev = call.main, !.saving = memories]
       IN  \/ call' = [began EXCEPT !.main = data, !.step = "written"]
           \/ call' = [began EXCEPT !.step = "catch"]
           \/ call' = [began EXCEPT !.main = File("partial", <<>>), !.step = "catch"]
    /\ UNCHANGED sched

\* saveMemories, up to the return of writeFileSync: the temporary file is
\* written in full, or the write throws with nothing or a part written
SaveWritesTemp ==
    /\ call.op = "persist"
    /\ call.step = "idle"
    /\ LET data == stringify(memories)
           began == [call EXCEPT !.prev = call.main, !.saving = memories]
       IN  \/ call' = [began EXCEPT !.temp = data, !.step = "written"]
           \/ call' = [began EXCEPT !.step = "catch"]
           \/ call' = [began EXCEPT !.temp = File("partial", <<>>), !.step = "catch"]
    /\ UNCHANGED sched

\* renameSync: the main file becomes the temporary file in one step, or
\* the rename throws and changes nothing
SaveRenames ==
    /\ call.op = "persist"
    /\ call.step = "written"
    /\ \/ call' = [call EXCEPT !.main = call.temp, !.temp = AbsentFile, !.step = "idle",
                                !.lastSave = "saved", !.hasPersisted = TRUE,
                                !.persisted = call.saving]
       \/ call' = [call EXCEPT !.step = "catch"]
    /\ UNCHANGED sched

\* the catch block: the temporary file is removed if it exists
SaveCleansUp ==
    /\ call.op = "persist"
    /\ call.step = "catch"
    /\ \/ call' = [call EXCEPT !.temp = AbsentFile, !.step = "idle", !.lastSave = "failed"]
       \* unlinkSync threw: saveMemories throws to its caller
       \/ /\ call.temp # AbsentFile
          /\ call' = [call EXCEPT !.step = "idle", !.lastSave = "threw"]
    /\ UNCHANGED sched

\* the process stops, at any point
ProcessStops ==
    /\ call.op = "persist"
    /\ call.step # "stopped"
    /\ call' = [call EXCEPT !.step = "stopped"]
    /\ UNCHANGED sched

\* a new process: the constructor of BotEngine loads the main file
ProcessRestarts ==
    /\ call.op = "persist"
    /\ call.step = "stopped"
    /\ call.restarts < MaxRestarts
    /\ memories' = loadMemories(call.main)
    /\ call' = [call EXCEPT !.step = "idle", !.booted = call.main, !.restarts = @ + 1]
    /\ UNCHANGED <<simulationMode, actionCounter, reportCount, i, pc, turn, ai, ex, disk, exit, pending>>

PersistNext ==
    \/ TurnRecorded
    \/ SaveWritesTemp
    \/ SaveRenames
    \/ SaveCleansUp
    \/ ProcessStops
    \/ ProcessRestarts

PersistSpec == PersistInit /\ [][PersistNext]_vars

----------------------------------------------------------------------------
(* BotEngine.run over many turns, for its reports.  A turn is taken as the *)
(* one await of executeTurn, which settles in one of the ways a turn ends.  *)

RECURSIVE RecordedActions(_, _)
\* the actions recorded in the memories of a set of addresses
RecordedActions(map, addresses) ==
    IF addresses = {} THEN 0
    ELSE LET a == CHOOSE x \in addresses : TRUE
         IN  map[a].totalActions + RecordedActions(map, addresses \ {a})

ReportInit ==
    /\ simulationMode \in BOOLEAN
    /\ disk = AbsentFile
    /\ exit = NoExit
    /\ memories = loadMemories(disk)
    /\ actionCounter = 0
    /\ reportCount = 0
    /\ i = 0
    /\ pc = "awaitTurn"
    /\ turn = NoTurn
    /\ ai = NoAI
    /\ ex = NoEx
    /\ pending = Issued(pc, i)
    /\ call = [op |-> "report"]

\* await executeTurn(personality) settled: it returned, or it threw to the
\* catch clause; then the counter, the report and the start of the delay
TurnSettled ==
    /\ pc = "awaitTurn"
    /\ \/ ~simulationMode /\ TurnReturns("skipped", turn, ai, ex, memories)
       \/ TurnReturns("created", [turn EXCEPT !.leg = "create"], ai, ex, memories)
       \/ TurnReturns("waited", [turn EXCEPT !.leg = "normal"], ai, ex, memories)
       \/ CatchTurnError("executor", <<"failed", "after", "all", "retries">>, turn, ai, ex)
       \/ \E action \in {"train", "fightMonster"} :
            LET t == [turn EXCEPT !.leg = "normal",
                                  !.memory = MemoryOf(memories, AddressOf(i)),
                                  !.validated = Decision(action, FALSE, 0, "why")]
            IN  IF simulationMode
                THEN /\ RecordedActions(memories, DOMAIN memories) < MaxRecorded
                     /\ \E won \in BOOLEAN :
                            LET outcome == simulateOutcome(action, won, actionCounter)
                            IN  TurnReturns("executed", t, ai, ex,
                                    MapSet(memories, AddressOf(i), updateMemory(t.memory, outcome)))
                ELSE TurnReturns("executed", t, ai, ex, memories)
    /\ Settled("executeTurn")

\* the idle delay ended: the next personality of the roster
DelayElapsed ==
    /\ pc = "awaitIdle"
    /\ actionCounter < MaxLongRun
    /\ i' = IF i + 1 < NumWallets THEN i + 1 ELSE 0
    /\ turn' = NoTurn
    /\ pc' = "awaitTurn"
    /\ UNCHANGED <<simulationMode, memories, actionCounter, reportCount, ai, ex, call, disk, exit>>
    /\ Settled("setTimeout")

ReportNext ==
    \/ TurnSettled
    \/ DelayElapsed

ReportSpec == ReportInit /\ [][ReportNext]_vars

----------------------------------------------------------------------------
(* Properties *)

\* the linear backoff sleeps made after failed attempts 1 .. k
LinearSleeps(base, k) == [j \in 1..k |-> base * j]

\* the text contains one of the fixed substrings, whatever the case of its words
MatchesKeyword(text) ==
    \E keyword \in nonRetryableKeywords :
        \E k \in 0..(Len(text) - Len(keyword)) :
            \A j \in 1..Len(keyword) : LowerWord(text[k + j]) = keyword[j]

OracleWaiting == pc \in {"awaitAI", "awaitAISleep"}

OracleMeasure(a, p) == 2 * a.attempt + (IF p = "awaitAISleep" THEN 1 ELSE 0)

\* C1: a turn that fails at any stage is caught inside the loop of run():
\* run() never terminates, the failed turn is counted and followed by the
\* idle delay, and the turn that starts next is the turn of the next agent
\* of the roster.
C1_FailureIsLocal ==
    /\ [](pc # "crashed")
    /\ [][(turn.failed = "none" /\ turn'.failed # "none")
            => (pc' = "awaitIdle" /\ actionCounter' = actionCounter + 1 /\ i' = i)]_vars
    /\ [][(pc = "awaitIdle" /\ turn.failed # "none" /\ pc' \notin {pc, "exited"})
            => (/\ i' = (i + 1) % NumWallets
                /\ pc' \in {"awaitGas", "awaitStats"}
                /\ turn' = NoTurn)]_vars

\* a turn of the last agent of the roster failed in the executor after
\* its retries and the scheduler is in the idle delay that follows it
C1_Witness ==
    /\ pc = "awaitIdle"
    /\ i = NumWallets - 1
    /\ turn.failed = "executor"
    /\ ex.failedAttempts = maxRetries
    /\ actionCounter < MaxTurns

\* C2: getDecision makes at most aiMaxRetries requests, never raises to
\* executeTurn, returns a decision, returns the fallback decision (train)
\* when every request failed, and every settled request or elapsed sleep
\* either ends the call or moves it strictly closer to its last attempt.
C2_DecisionAlwaysReturned ==
    /\ [](/\ ai.requests <= aiMaxRetries
          /\ ai.attempt <= aiMaxRetries
          /\ turn.failed # "oracle"
          /\ ai.returned =>
                /\ pc = "awaitDecision"
                /\ turn.aiDecision.action # ""
                /\ ai.failures = ai.requests =>
                      (ai.requests = aiMaxRetries /\ turn.aiDecision = fallbackDecision
                        /\ turn.aiDecision.action = "train")
                /\ ai.failures < ai.requests => turn.aiDecision # fallbackDecision)
    /\ [][(OracleWaiting /\ ai' # ai) =>
            \/ pc' = "exited"
            \/ pc' = "awaitDecision" /\ ai'.returned
            \/ OracleWaiting' /\ OracleMeasure(ai', pc') > OracleMeasure(ai, pc)]_vars

\* every request failed, one of them by a transport error, and the
\* fallback decision was returned
C2_Witness ==
    /\ ai.returned
    /\ ai.failures = aiMaxRetries
    /\ Len(ai.sleeps) >= 1
    /\ turn.aiDecision = fallbackDecision

C5_OneSubmitPerSuccess ==
    ex.result = "receipt" => ex.txSent = 1

\* C6: in live mode the pre-flight checks run before the first submit
\* attempt, and a balance below the configured minimum or a gas price
\* above the configured maximum raises an error with no ledger submit call.
C6_PreFlightAborts ==
    /\ (~simulationMode /\ ex.submitCalls > 0) => (ex.gasQueries = 1 /\ ex.balanceQueries = 1)
    /\ ex.gasAboveMax => (ex.result = "raised" /\ ex.submitCalls = 0)
    /\ (ex.balanceQueries > 0 /\ ex.balance < minBalanceMilliEth) =>
          (ex.result = "raised" /\ ex.submitCalls = 0)

\* C7: in simulation mode executeTransaction makes no ledger call (no
\* submit, no gas or balance query), never enters the failure and retry
\* path, and returns the null result after its single fixed delay.
C7_SimulationTouchesNothing ==
    simulationMode =>
        /\ ex.submitCalls = 0
        /\ ex.gasQueries = 0
        /\ ex.balanceQueries = 0
        /\ ex.failedAttempts = 0
        /\ ex.attempt <= 1
        /\ ex.result \in {"none", "null"}
        /\ pc \notin {"awaitGas", "awaitPreGas", "awaitPreBalance", "awaitSubmit", "awaitConfirm", "awaitBackoff"}
        /\ pc = "awaitSimDelay" => (ex.sleeps = <<simulationDelayMs>> /\ ex.result = "none")
        /\ turn.ended \in {"created", "executed"} =>
              (ex.result = "null" /\ ex.sleeps = <<simulationDelayMs>> /\ ex.attempt = 1)

\* a later turn of a simulation run executed a fightMonster and got null
C7_Witness ==
    /\ simulationMode
    /\ actionCounter >= 2
    /\ ex.action = "fightMonster"
    /\ ex.result = "null"
    /\ ex.sleeps = <<simulationDelayMs>>

\* C8: a fightMonster proposal met with consecutiveLosses at or above
\* maxConsecutiveLosses is answered with a train decision, whatever the
\* gold, strength and defense of the observed state.
C8_LossStreakOverride ==
    (/\ call.op = "validateAIDecision"
     /\ call.done
     /\ call.decision.action = "fightMonster"
     /\ call.memory.consecutiveLosses >= maxConsecutiveLosses)
        => call.result.action = "train"

\* consecutiveLosses equal to the threshold, ample gold, overridden
C8_Witness ==
    /\ call.op = "validateAIDecision"
    /\ call.done
    /\ call.decision.action = "fightMonster"
    /\ call.memory.consecutiveLosses = maxConsecutiveLosses
    /\ parseInt(call.stats.gold) = 1000
    /\ parseInt(call.stats.strength) = 15
    /\ call.result = trainLossStreak

\* C9: a buyItem proposal that references a catalog item whose cost
\* exceeds the current gold is answered with a train decision.
C9_UnaffordableItemOverride ==
    (/\ call.op = "validateAIDecision"
     /\ call.done
     /\ call.decision.action = "buyItem"
     /\ call.decision.hasItemId
     /\ call.decision.itemId \in DOMAIN itemShop
     /\ itemShop[call.decision.itemId].cost > parseInt(call.stats.gold))
        => call.result.action = "train"

\* the 250-cost item proposed with 100 gold, overridden
C9_Witness ==
    /\ call.op = "validateAIDecision"
    /\ call.done
    /\ call.decision.action = "buyItem"
    /\ call.decision.hasItemId
    /\ call.decision.itemId = 2
    /\ parseInt(call.stats.gold) = 100
    /\ call.result = trainUnaffordable

\* C10: a fightMonster proposal met with gold below minGoldForFight is
\* validated to train, and the executor is handed fightMonster only when
\* the state and memory read in the same turn have gold >= minGoldForFight
\* and consecutiveLosses < maxConsecutiveLosses.
C10_FightNeedsGoldAndNoStreak ==
    /\ (/\ turn.validated # NoDecision
        /\ turn.aiDecision.action = "fightMonster"
        /\ parseInt(turn.stats.gold) < minGoldForFight) => turn.validated.action = "train"
    /\ ex.action = "fightMonster" =>
          /\ turn.validated.action = "fightMonster"
          /\ parseInt(turn.stats.gold) >= minGoldForFight
          /\ turn.memory.consecutiveLosses < maxConsecutiveLosses
          /\ turn.memory = MemoryOf(memories, i) \/ turn.ended = "executed"

\* a fightMonster submitted at the two boundaries: gold 20, four losses
C10_Witness ==
    /\ ex.action = "fightMonster"
    /\ ex.submitCalls >= 1
    /\ parseInt(turn.stats.gold) = minGoldForFight
    /\ turn.memory.consecutiveLosses = maxConsecutiveLosses - 1

\* the three conditions under which validateAIDecision replaces a proposal
OverrideApplies(decision, stats, memory) ==
    \/ decision.action = "fightMonster" /\ memory.consecutiveLosses >= maxConsecutiveLosses
    \/ decision.action = "fightMonster" /\ parseInt(stats.gold) < minGoldForFight
    \/ /\ decision.action = "buyItem"
       /\ decision.hasItemId
       /\ \E k \in DOMAIN itemShop : k = decision.itemId /\ itemShop[k].cost > parseInt(stats.gold)

\* C11: validateAIDecision returns a decision for every proposal, also for
\* a buyItem with an item id outside the catalog or with no item id, and
\* when none of the three override conditions holds the returned decision
\* has the action, item id and rationale of the proposal.
C11_TotalAndPassThrough ==
    (call.op = "validateAIDecision" /\ call.done) =>
        /\ call.result.action \in GuardActions
        /\ call.result.reasoning # ""
        /\ ~OverrideApplies(call.decision, call.stats, call.memory) =>
              /\ call.result.action = call.decision.action
              /\ call.result.hasItemId = call.decision.hasItemId
              /\ call.result.itemId = call.decision.itemId
              /\ call.result.reasoning = call.decision.reasoning

\* a buyItem for item id 3, which the catalog does not hold, proposed
\* with no gold at all and returned as proposed
C11_Witness ==
    /\ call.op = "validateAIDecision"
    /\ call.done
    /\ call.decision.action = "buyItem"
    /\ call.decision.hasItemId
    /\ call.decision.itemId = 3
    /\ parseInt(call.stats.gold) = 0
    /\ call.result = call.decision

ValidActions == {"createPlayer", "train", "fightMonster", "buyItem", "levelUp", "wait"}

\* C12: a decision that getDecision returns from an oracle reply (not the
\* fallback) has one of the six valid actions, a non-empty rationale, and
\* an item id only when its action is buyItem.
C12_ReplyDecisionWellFormed ==
    (ai.returned /\ ai.failures < ai.requests) =>
        /\ turn.aiDecision.action \in ValidActions
        /\ turn.aiDecision.reasoning # ""
        /\ turn.aiDecision.hasItemId => turn.aiDecision.action = "buyItem"

\* a reply object with a field the validation refuses by its type
RefusedByType(raw) ==
    /\ raw.form = "object"
    /\ \/ raw.action.t # "string"
       \/ raw.reasoning.t # "string"
       \/ raw.itemId.t \notin {"undefined", "number"}

\* C13: a reply whose action is missing or not a string, whose rationale
\* is missing or not a string, or whose itemId is present and not a number
\* is not returned: the attempt counts as failed, and the call either
\* issues the next request with the attempt number one higher or, at the
\* last attempt, returns the fallback decision.
C13_MalformedReplyRejected ==
    [][(pc = "awaitAI" /\ ai' # ai /\ ai'.last.kind = "content" /\ RefusedByType(ai'.last.raw))
        => /\ ai'.failures = ai.failures + 1
           /\ \/ /\ ai.attempt < aiMaxRetries
                 /\ pc' = "awaitAI"
                 /\ ~ai'.returned
                 /\ ai'.attempt = ai.attempt + 1
                 /\ ai'.requests = ai.requests + 1
                 /\ turn'.aiDecision = NoDecision
              \/ /\ ai.attempt = aiMaxRetries
                 /\ pc' = "awaitDecision"
                 /\ ai'.returned
                 /\ ai'.attempt = ai.attempt
                 /\ turn'.aiDecision = fallbackDecision]_vars

\* the first reply carried the itemId as text and the second request is out
C13_Witness ==
    /\ pc = "awaitAI"
    /\ ai.attempt = 2
    /\ ai.requests = 2
    /\ ai.failures = 1
    /\ ai.last.kind = "content"
    /\ ai.last.raw = RawReply("object", JsStr("buyItem"), JsStr("why"), JsStr("1"))

\* C14: whenever a request other than the first is in flight, every
\* earlier attempt of the call, failed by a transport error or by an empty
\* or malformed reply, was followed by a sleep of 2000 x its attempt number.
C14_BackoffBetweenAttempts ==
    pc = "awaitAI" => ai.sleeps = LinearSleeps(aiBackoffBaseMs, ai.attempt - 1)

\* the last outcome applied and the memory it produced
LastOutcome == call.applied[call.n]
Updated == memories[i]
Updating == call.op = "updateMemory" /\ call.n > 0

\* C15: after updateMemory(m, o) returns, every field of the argument m,
\* the length and contents of its recentActions included, has the value
\* it had before the call, and the result holds no array in common with m.
C15_UpdateIsPure ==
    Updating => (call.argument = call.input /\ call.shared = {})

\* C16: after n updates applied in sequence to the zero-state, the
\* recentActions of the memory has length min(n, 30) and is the last
\* min(n, 30) outcomes applied, in the order of application; no memory of
\* the store holds more than 30.
C16_RecentOutcomesBounded ==
    /\ \A a \in DOMAIN memories : Len(memories[a].recentActions) <= recentActionsLimit
    /\ Updating =>
          LET kept == IF call.n < recentActionsLimit THEN call.n ELSE recentActionsLimit
          IN  /\ Len(Updated.recentActions) = kept
              /\ \A j \in 1..kept :
                    Updated.recentActions[j] = call.applied[call.n - kept + j]

\* 32 updates applied: 30 outcomes kept, the third applied now the oldest
C16_Witness ==
    /\ Updating
    /\ call.n = recentActionsLimit + 2
    /\ Len(Updated.recentActions) = recentActionsLimit
    /\ Updated.recentActions[1].timestamp = 3
    /\ Updated.recentActions[recentActionsLimit].timestamp = recentActionsLimit + 2

\* C17: in every memory reached from the zero-state consecutiveWins and
\* consecutiveLosses are not both above 0; a won fightMonster adds one to
\* consecutiveWins and sets consecutiveLosses to 0, a lost one adds one
\* to consecutiveLosses and sets consecutiveWins to 0.
C17_StreaksExclusive ==
    Updating =>
        /\ ~(Updated.consecutiveWins > 0 /\ Updated.consecutiveLosses > 0)
        /\ (LastOutcome.action = "fightMonster" /\ LastOutcome.success) =>
              /\ Updated.consecutiveWins = call.input.consecutiveWins + 1
              /\ Updated.consecutiveLosses = 0
        /\ (LastOutcome.action = "fightMonster" /\ ~LastOutcome.success) =>
              /\ Updated.consecutiveLosses = call.input.consecutiveLosses + 1
              /\ Updated.consecutiveWins = 0

\* a lost fight recorded on a memory that held two wins in a row
C17_Witness ==
    /\ Updating
    /\ LastOutcome.action = "fightMonster"
    /\ ~LastOutcome.success
    /\ call.input.consecutiveWins = 2
    /\ Updated.consecutiveWins = 0
    /\ Updated.consecutiveLosses = 1

\* C18: along a sequence of updates from the zero-state bestWinStreak
\* never decreases, and after each update it is the largest value that
\* consecutiveWins has had so far in the sequence.
C18_BestStreakIsHistoricalMax ==
    Updating =>
        /\ Updated.bestWinStreak >= call.input.bestWinStreak
        /\ Updated.bestWinStreak = call.maxWins

\* a win recorded after two wins and a loss: the streak is 1, the best 2
C18_Witness ==
    /\ Updating
    /\ LastOutcome.action = "fightMonster"
    /\ LastOutcome.success
    /\ call.input.bestWinStreak = 2
    /\ Updated.consecutiveWins = 1
    /\ Updated.bestWinStreak = 2

\* C19: an update adds goldChange to goldEarned when goldChange > 0 and
\* leaves it unchanged otherwise, adds |goldChange| to goldSpent when
\* goldChange < 0 and leaves it unchanged otherwise; both totals are
\* non-negative and never decrease.
C19_GoldTotalsAccumulate ==
    Updating =>
        LET g == LastOutcome.goldChange
        IN  /\ Updated.goldEarned = call.input.goldEarned + (IF g > 0 THEN g ELSE 0)
            /\ Updated.goldSpent = call.input.goldSpent + (IF g < 0 THEN 0 - g ELSE 0)
            /\ Updated.goldEarned >= call.input.goldEarned
            /\ Updated.goldSpent >= call.input.goldSpent
            /\ Updated.goldEarned >= 0
            /\ Updated.goldSpent >= 0

\* a loss of 20 gold recorded on a memory with gold earned and gold spent
C19_Witness ==
    /\ Updating
    /\ LastOutcome.goldChange = -20
    /\ call.input.goldEarned = 55
    /\ call.input.goldSpent = 20
    /\ Updated.goldEarned = 55
    /\ Updated.goldSpent = 40

\* C20: a won fightMonster with gold delta g > 0 applied to a memory m
\* gives totalActions, totalBattles, battlesWon and consecutiveWins one
\* above those of m, battlesLost and goldSpent those of m,
\* consecutiveLosses 0, bestWinStreak max(m.bestWinStreak,
\* m.consecutiveWins + 1) and goldEarned m.goldEarned + g; applied to the
\* zero-state with g = 40 it gives battlesWon 1, consecutiveWins 1,
\* bestWinStreak 1, goldEarned 40 and goldSpent 0.
C20_WinningBattleUpdate ==
    (/\ Updating
     /\ LastOutcome.action = "fightMonster"
     /\ LastOutcome.success
     /\ LastOutcome.goldChange > 0) =>
        LET m == call.input
        IN  /\ Updated.totalActions = m.totalActions + 1
            /\ Updated.totalBattles = m.totalBattles + 1
            /\ Updated.battlesWon = m.battlesWon + 1
            /\ Updated.consecutiveWins = m.consecutiveWins + 1
            /\ Updated.battlesLost = m.battlesLost
            /\ Updated.consecutiveLosses = 0
            /\ Updated.bestWinStreak =
                  (IF m.bestWinStreak >= m.consecutiveWins + 1
                   THEN m.bestWinStreak ELSE m.consecutiveWins + 1)
            /\ Updated.goldEarned = m.goldEarned + LastOutcome.goldChange
            /\ Updated.goldSpent = m.goldSpent
            /\ (m = initializeMemory /\ LastOutcome.goldChange = 40) =>
                  /\ Updated.battlesWon = 1
                  /\ Updated.consecutiveWins = 1
                  /\ Updated.bestWinStreak = 1
                  /\ Updated.goldEarned = 40
                  /\ Updated.goldSpent = 0

\* the zero-state after one won fight worth 40 gold
C20_Witness ==
    /\ Updating
    /\ call.n = 1
    /\ call.input = initializeMemory
    /\ LastOutcome.action = "fightMonster"
    /\ LastOutcome.success
    /\ LastOutcome.goldChange = 40
    /\ Updated.battlesWon = 1
    /\ Updated.goldEarned = 40

Persisting == call.op = "persist"

\* C21: at every point of a save and after it, also when the write of the
\* temporary file or the rename fails or the process stops between two
\* file operations, the main file is the complete snapshot it held when
\* the save began or the complete snapshot of the map being saved, never a
\* part of one; no step of a save changes the memories map, and a save
\* that failed leaves the main file as it was when the save began.
C21_SaveIsAtomic ==
    /\ [](Persisting =>
            /\ call.main \in {call.prev, stringify(call.saving)}
            /\ call.main.kind # "partial")
    /\ [][(Persisting /\ call.step \in {"idle", "written", "catch"}
              /\ call'.step \in {"written", "catch", "idle"}
              /\ call'.edits = call.edits)
            => /\ memories' = memories
               /\ (call.step = "catch" /\ call'.step = "idle") =>
                     (call'.lastSave \in {"failed", "threw"} /\ call'.main = call.prev)]_vars

\* the process stopped between the write of the temporary file and the
\* rename, after one save had completed and the map had changed since
C21_Witness ==
    /\ Persisting
    /\ call.step = "stopped"
    /\ call.hasPersisted
    /\ call.temp = stringify(memories)
    /\ call.temp # call.main
    /\ call.main = stringify(call.persisted)

\* C22: loadMemories returns the empty mapping when the file is absent,
\* unreadable, not valid JSON, or valid JSON that is not an array of
\* (address, memory) pairs, and returns the mapping that was saved when the
\* file is a snapshot written by saveMemories.
C22_LoadFallsBackOrRoundTrips ==
    (Persisting /\ call.step = "idle" /\ call.edits = 0) =>
        /\ (\/ call.booted.kind # "array"
            \/ \E j \in 1..Len(call.booted.items) : call.booted.items[j].t # "pair")
              => memories = <<>>
        /\ (call.restarts > 0 /\ call.hasPersisted) => memories = call.persisted

ExitedBySignal == pc = "exited" /\ exit.cause = "signal"

Congested == ~turn.gasReading.ok \/ turn.gasReading.gwei > gasThresholdGwei

\* C24: in simulation mode a turn makes no congestion query; in live mode
\* every turn makes one, and when the level exceeds the threshold or the
\* query fails the turn ends there: no state fetch, no oracle request, no
\* ledger submit, no memory change, and the scheduler is in its idle delay.
C24_CongestionSkip ==
    /\ [](simulationMode => pc # "awaitGas" /\ turn.gasQueries = 0)
    /\ [](~simulationMode /\ Running /\ pc # "awaitGas" => turn.gasQueries = 1)
    /\ [](turn.gasQueries = 1 /\ Congested =>
            /\ pc = "awaitIdle"
            /\ turn.ended = "skipped"
            /\ turn.leg = "none"
            /\ turn.stats = NoTurn.stats
            /\ ai = NoAI
            /\ ex = NoEx)
    /\ [](turn.ended = "skipped" => turn.gasQueries = 1 /\ Congested)
    /\ [][pc = "awaitGas" /\ pc' \notin {"awaitGas", "exited"} =>
            /\ turn'.gasQueries = 1
            /\ memories' = memories
            /\ IF Congested'
               THEN pc' = "awaitIdle" /\ actionCounter' = actionCounter + 1
               ELSE pc' = "awaitStats" /\ actionCounter' = actionCounter]_vars

\* the second turn of a live run is skipped because the gas query failed
C24_Witness ==
    /\ ~simulationMode
    /\ pc = "awaitIdle"
    /\ actionCounter = 2
    /\ turn.ended = "skipped"
    /\ ~turn.gasReading.ok
    /\ memories # <<>>

ExecutorPoints ==
    {"awaitPreGas", "awaitPreBalance", "awaitSubmit", "awaitConfirm", "awaitBackoff",
     "awaitSimDelay"}

\* C25: when the fetched state says the agent does not exist, the turn
\* hands createPlayer for that agent to the executor and nothing else: the
\* oracle is not consulted, the guardrail is not run, the memory map does
\* not change, and when the executor call settles the turn is over and the
\* scheduler is in its idle delay.
C25_CreateLeg ==
    /\ [](turn.leg = "create" =>
            /\ ~turn.stats.exists
            /\ ex.action = "createPlayer"
            /\ ex.walletIndex = i
            /\ ~ex.hasItemId
            /\ ai = NoAI
            /\ turn.aiDecision = NoDecision
            /\ turn.validated = NoDecision
            /\ pc \in ExecutorPoints \cup {"awaitIdle"}
            /\ (pc = "awaitIdle") = (turn.ended \in {"created", "failed"})
            /\ (pc \in ExecutorPoints) = (turn.ended = "none"))
    /\ [][turn.leg = "create" => memories' = memories]_vars
    /\ [][pc = "awaitStats" /\ pc' \notin {"awaitStats", "exited"}
            /\ turn'.failed # "fetch" /\ ~turn'.stats.exists =>
                /\ turn'.leg = "create"
                /\ pc' \in ExecutorPoints
                /\ memories' = memories]_vars
    /\ [][turn.leg = "create" /\ pc \in ExecutorPoints /\ pc' \notin ExecutorPoints \cup {"exited"} =>
            /\ pc' = "awaitIdle"
            /\ actionCounter' = actionCounter + 1]_vars

\* the second wallet of a live run does not exist; createPlayer was sent
\* for it and confirmed
C25_Witness ==
    /\ ~simulationMode
    /\ i = 1
    /\ turn.leg = "create"
    /\ turn.ended = "created"
    /\ ex.walletIndex = 1
    /\ ex.txSent = 1
    /\ ex.result = "receipt"
    /\ memories # <<>>

\* the step records one synthesized outcome of the validated action in the
\* memory of the wallet of the turn, under its address
RecordsOneOutcome ==
    \E won \in BOOLEAN :
        LET outcome == simulateOutcome(turn.validated.action, won, actionCounter)
        IN  /\ memories' = MapSet(memories, AddressOf(i), updateMemory(MemoryOf(memories, AddressOf(i)), outcome))
            /\ DOMAIN memories' = DOMAIN memories \cup {AddressOf(i)}
            /\ \A a \in DOMAIN memories \ {AddressOf(i)} : memories'[a] = memories[a]
            /\ memories'[AddressOf(i)].totalActions = MemoryOf(memories, AddressOf(i)).totalActions + 1

\* C26: in simulation mode a turn of the normal leg whose executor call
\* returns records exactly one synthesized outcome in the memory of its
\* agent, stored under the agent's address, with totalActions one larger,
\* in the step in which the executor returns and in no other step; in live
\* mode no step of the scheduler changes the memory map.
C26_RecordingByMode ==
    /\ [][simulationMode /\ turn.leg = "normal" /\ pc \in ExecutorPoints
            /\ pc' \notin ExecutorPoints \cup {"exited"} /\ ex'.result # "raised" =>
                /\ ex'.result = "null"
                /\ turn'.ended = "executed"
                /\ RecordsOneOutcome]_vars
    /\ [][memories' # memories =>
            /\ simulationMode
            /\ turn.leg = "normal"
            /\ pc \in ExecutorPoints
            /\ ex.result = "none"
            /\ ex'.result = "null"
            /\ pc' = "awaitIdle"
            /\ RecordsOneOutcome]_vars
    /\ [][~simulationMode => memories' = memories]_vars

\* the second turn of a simulated run executed its action, and the memory
\* of the second wallet, created by this turn, counts one action
C26_Witness ==
    /\ simulationMode
    /\ pc = "awaitIdle"
    /\ i = 1
    /\ actionCounter = 2
    /\ turn.ended = "executed"
    /\ turn.memory = initializeMemory
    /\ 1 \in DOMAIN memories
    /\ memories[1].totalActions = 1

\* every turn that is followed has been taken and has ended
RunComplete == pc = "awaitIdle" /\ actionCounter = MaxTurns /\ turn.ended # "none"

\* the roster position of the k-th turn of the run (k from 0)
RosterPosition(k) == k % NumWallets

\* C27: turns are taken in roster order 0, 1, ..., n-1 and then again from
\* 0: the k-th turn of the run is the turn of wallet k mod n, so that every
\* other wallet takes exactly one turn between two turns of a wallet; and
\* when every awaited call and delay settles, every turn comes to its end
\* and the next wallet's turn is taken, up to the last turn followed.
C27_RosterOrderForever ==
    /\ [](Running =>
            i = RosterPosition(IF pc = "awaitIdle" THEN actionCounter - 1 ELSE actionCounter))
    /\ [][Running /\ i' # i =>
            /\ pc = "awaitIdle"
            /\ turn.ended # "none"
            /\ turn' = NoTurn
            /\ i' = (i + 1) % NumWallets]_vars
    /\ [][actionCounter' # actionCounter =>
            /\ actionCounter' = actionCounter + 1
            /\ pc' = "awaitIdle"
            /\ i' = i]_vars
    /\ <>RunComplete

\* the roster wrapped: the first wallet ended its second turn after the
\* other wallet had its turn
C27_Witness ==
    /\ Running
    /\ actionCounter = NumWallets + 1
    /\ i = 0
    /\ pc = "awaitIdle"
    /\ turn.ended # "none"

\* the promise the loop is suspended on: of the point it is at, for the
\* wallet whose turn it is
Awaited == Issued(pc, i)

\* C28: at any moment the loop of run() has at most one promise it has not
\* seen settle: the call or the delay it is suspended on, made for the
\* wallet whose turn it is.  A step issues a call or a delay only when the
\* one before has settled: a new turn starts only when the turn before it
\* and its idle delay have ended, and an attempt of the executor or of the
\* oracle adapter starts only when the attempt before it has returned or
\* failed and its backoff has elapsed.
C28_OneOutstandingCall ==
    /\ [](Len(pending) <= 1)
    /\ [](Running => pending = Awaited)
    /\ [](Running /\ pc # "awaitIdle" => turn.ended = "none")
    /\ [][pending' # pending /\ pending' # <<>> =>
            /\ Len(pending) <= 1
            /\ Len(pending') = 1
            /\ pending = Issued(pc, i)
            /\ Without(pending, AwaitedAt(pc)) = <<>>]_vars
    /\ [][pc' \in {"awaitGas", "awaitStats"} /\ pc \notin {"awaitGas", "awaitStats"} =>
            /\ pc = "awaitIdle"
            /\ turn.ended # "none"
            /\ turn' = NoTurn
            /\ pending = <<Promise("setTimeout", i)>>
            /\ pending' = <<Promise(AwaitedAt(pc'), i')>>]_vars
    /\ [][ex'.attempt > ex.attempt /\ ex.attempt >= 1 =>
            pc = "awaitBackoff" /\ pending = <<Promise("setTimeout", i)>>]_vars
    /\ [][ai'.attempt > ai.attempt /\ ai.attempt >= 1 =>
            pc \in {"awaitAI", "awaitAISleep"} /\ pending = Issued(pc, i)]_vars

\* a second attempt of the executor is waiting for its contract call, for
\* the second wallet, after the confirmation wait of the first attempt failed
C28_Witness ==
    /\ pc = "awaitSubmit"
    /\ i = 1
    /\ ex.attempt = 2
    /\ ex.txSent = 1
    /\ pending = <<Promise("contract", 1)>>

Reporting == call.op = "report"

\* the outcome a memory recorded last
LastRecorded(memory) == memory.recentActions[Len(memory.recentActions)]

\* C29: a report is generated after the k-th turn of the run exactly when
\* k is a positive multiple of the report interval, whatever the way the
\* turns ended (a caught failure, a congestion skip, a create and a wait
\* count), and the step that generates it leaves the memory map as it
\* would be without the report: unchanged, or with the one outcome the
\* turn itself recorded.
C29_ReportEveryInterval ==
    /\ [](Reporting => reportCount = actionCounter \div reportInterval)
    /\ [][Reporting /\ actionCounter' # actionCounter =>
            /\ actionCounter' = actionCounter + 1
            /\ turn'.ended \in {"failed", "skipped", "created", "waited", "executed"}
            /\ (reportCount' = reportCount + 1) = (actionCounter' % reportInterval = 0)
            /\ (reportCount' = reportCount) = (actionCounter' % reportInterval # 0)]_vars
    /\ [][Reporting /\ reportCount' # reportCount =>
            /\ actionCounter' > 0
            /\ \/ memories' = memories
               \/ simulationMode /\ turn'.ended = "executed"
                    /\ \E a \in DOMAIN memories' :
                        /\ DOMAIN memories' = DOMAIN memories \cup {a}
                        /\ memories'[a].recentActions # <<>>
                        /\ memories'[a] = updateMemory(turn'.memory, LastRecorded(memories'[a]))
                        /\ \A b \in DOMAIN memories \ {a} : memories'[b] = memories[b]]_vars

\* the second report of a simulated run came after a turn that failed,
\* with a memory recorded for one wallet and none for another
C29_Witness ==
    /\ Reporting
    /\ simulationMode
    /\ actionCounter = 2 * reportInterval
    /\ reportCount = 2
    /\ turn.ended = "failed"
    /\ memories # <<>>
    /\ \E w \in Wallets : AddressOf(w) \notin DOMAIN memories

Predicted == call.op = "predictBattleOutcome" /\ call.done

\* C30: for non-negative integer strength and defense and any history of
\* non-negative counts, the winProbability of predictBattleOutcome is at
\* least 0.05 = 1/20 and at most 0.95 = 19/20.
C30_WinProbabilityClamped ==
    Predicted =>
        LET winProb == call.result.winProbability
        IN  /\ winProb.den > 0
            /\ 20 * winProb.num >= winProb.den
            /\ 20 * winProb.num <= 19 * winProb.den

\* a weak agent on a cold streak with a losing history: the sum of the
\* terms is below 0.05 and the prediction is 0.05
C30_Witness ==
    /\ Predicted
    /\ call.memory.battlesWon + call.memory.battlesLost > 5
    /\ call.memory.consecutiveLosses >= 2
    /\ LET raw == winProbBeforeClamp(call.stats, call.memory)
       IN  20 * raw.num < raw.den
    /\ 20 * call.result.winProbability.num = call.result.winProbability.den
    /\ call.result.riskLevel = "high"

\* a / b = c / d, a / b > c / d and a / b < c / d for positive b and d
SameFraction(x, y) == x.num * y.den = y.num * x.den
Above(x, y) == x.num * y.den > y.num * x.den
Below(x, y) == x.num * y.den < y.num * x.den

\* the formula of the prediction in ten-thousandths over the number of
\* battles: 0.5, 0.005 per point of power above 20, a fifth of the
\* distance of the win rate from a half after more than 5 battles, 0.05
\* per win of a streak of 2 or more, 0.07 per loss of a streak of 2 or more
ReferenceSum(strength, defense, won, lost, cw, cl) ==
    LET battles == won + lost
        d == IF battles = 0 THEN 1 ELSE battles
    IN  Fraction(5000 * d + 50 * (strength + defense - 20) * d
                    + (IF battles > 5 THEN 2000 * won - 1000 * battles ELSE 0)
                    + (IF cw >= 2 THEN 500 * cw * d ELSE 0)
                    - (IF cl >= 2 THEN 700 * cl * d ELSE 0),
                 10000 * d)

ReferenceProbability(sum) ==
    IF Below(sum, Fraction(5, 100)) THEN Fraction(5, 100)
    ELSE IF Above(sum, Fraction(95, 100)) THEN Fraction(95, 100)
    ELSE sum

ReferenceRisk(p) ==
    IF Above(p, Fraction(7, 10)) THEN "low"
    ELSE IF Above(p, Fraction(45, 100)) THEN "medium"
    ELSE "high"

Analyzed == call.op = "analyzeItemROI" /\ call.done

\* C32: when the agent's strength + defense is 0, analyzeItemROI reports,
\* for every item of the catalog, an expectedWinRateIncrease of 0 and the
\* paybackBattles of an impractical purchase (999).
C32_ZeroPowerIsZeroIncrease ==
    (Analyzed /\ parseInt(call.stats.strength) + parseInt(call.stats.defense) = 0) =>
        /\ call.result.expectedWinRateIncrease.kind = "finite"
        /\ call.result.expectedWinRateIncrease.num = 0
        /\ call.result.paybackBattles = impracticalPayback

\* C33: in live mode no contract call is made while the gas price of the
\* network is above guardrails.maxGasGwei, at the first attempt and at
\* every retry after a backoff sleep, however the price moves in the turn.
C33_NoSubmitAboveMaxGas ==
    (~simulationMode /\ ex.submitCalls > 0) => ex.submitGwei <= maxGasGwei

\* the turn that has just ended recorded a training forced by the
\* losing-streak rule of the guardrail
ForcedTrainingRecorded(a) ==
    /\ simulationMode
    /\ i = a
    /\ turn.ended = "executed"
    /\ turn.aiDecision.action = "fightMonster"
    /\ turn.validated = trainLossStreak
    /\ turn.memory.consecutiveLosses >= maxConsecutiveLosses

BelowStreak(a) == MemoryOf(memories, a).consecutiveLosses < maxConsecutiveLosses

\* in simulation mode a memory at or above the threshold stays there
LossStreakKept ==
    [][\A a \in Wallets : (simulationMode /\ ~BelowStreak(a)) => ~BelowStreak(a)']_vars

FailedForBalance(a) ==
    i = a /\ turn.ended = "failed" /\ turn.failed = "preflight" /\ turn.critical

\* a turn of wallet a is waiting for a state fetch, an oracle request or a
\* ledger call
TurnInProgress(a) ==
    i = a /\ turn.ended = "none" /\ pc \in AwaitedCalls

C36_WaitDoesNothing ==
    /\ [][(pc = "awaitDecision" /\ turn'.validated.action = "wait" /\ Running') =>
            /\ pc' = "awaitIdle"
            /\ turn'.ended = "waited"
            /\ ex' = NoEx
            /\ memories' = memories]_vars
    /\ [](turn.ended = "waited" =>
            /\ turn.validated.action = "wait"
            /\ ex = NoEx
            /\ MemoryOf(memories, i) = turn.memory)

C36_Witness ==
    /\ turn.ended = "waited"
    /\ simulationMode
    /\ actionCounter = 3
    /\ MemoryOf(memories, i).totalActions = 1

\* the memory that recording the outcomes of a list, one after the other,
\* leaves from the zero-state
RECURSIVE Replay(_)
Replay(outcomes) ==
    IF outcomes = <<>> THEN initializeMemory
    ELSE updateMemory(Replay(SubSeq(outcomes, 1, Len(outcomes) - 1)), outcomes[Len(outcomes)])

\* a memory of at most 30 actions left by whole applications of updateMemory
WholeUpdates(memory) == memory = Replay(memory.recentActions)

\* C37: the save timer can fire at every suspension point of the loop of
\* run(), and every snapshot on disk holds, for each agent, a memory left
\* by a whole number of updateMemory applications (as does the map at
\* every suspension point): no list of recent outcomes longer than
\* totalActions accounts for, no counters ahead of the entry.
C37_SnapshotsHoldWholeUpdates ==
    /\ Running => ENABLED AutoSaveFired
    /\ \A a \in DOMAIN memories : WholeUpdates(memories[a])
    /\ disk.kind = "array" =>
          \A k \in 1..Len(disk.items) :
              /\ disk.items[k].t = "pair"
              /\ WholeUpdates(disk.items[k].value)
              /\ Len(disk.items[k].value.recentActions) = disk.items[k].value.totalActions

C37_Witness ==
    /\ simulationMode
    /\ pc = "awaitAI"
    /\ i = 1
    /\ disk = stringify(memories)
    /\ 0 \in DOMAIN memories
    /\ memories[0].totalActions = 1
    /\ exit = NoExit

\* the entry of the memory map for an address, or its absence
EntryOf(map, address) ==
    IF address \in DOMAIN map THEN <<map[address]>> ELSE <<>>

\* C38: a step of the turn of the wallet at roster position i leaves the
\* entry of every other agent as it was: none is added, removed or changed
\* (its list of recent outcomes included), in simulation mode and in live
\* mode, whether the agents were loaded or first met as a zero-state.
C38_AgentIsolation ==
    [][\A b \in Wallets :
          AddressOf(b) # AddressOf(i) =>
              EntryOf(memories', AddressOf(b)) = EntryOf(memories, AddressOf(b))]_vars

C38_Witness ==
    /\ simulationMode
    /\ disk = AbsentFile
    /\ i = 0
    /\ turn.ended = "executed"
    /\ DOMAIN memories = Wallets
    /\ memories[0].totalActions = 2
    /\ memories[1].totalActions = 1

\* C39: updateMemory leaves the collection of owned items as it is: after
\* any sequence of outcomes, successful buyItem outcomes included,
\* itemsPurchased is that of the initial memory, and the item analysis of a
\* memory that began as the zero-state reports no item as owned.
C39_OwnedItemsNeverChange ==
    Updating =>
        /\ Updated.itemsPurchased = call.input.itemsPurchased
        /\ Updated.itemsPurchased = initializeMemory.itemsPurchased
        /\ \A itemId \in DOMAIN itemShop :
              ~analyzeItemROI(itemId, Stats(TRUE, 250, 15, 15), Updated).isOwned

\* two purchases recorded in a row
C39_Witness ==
    /\ Updating
    /\ call.n >= 2
    /\ LastOutcome.action = "buyItem"
    /\ LastOutcome.success
    /\ call.applied[call.n - 1].action = "buyItem"
    /\ Updated.totalActions = call.n
    /\ Updated.itemsPurchased = <<>>

\* C40: in every memory reached from the zero-state totalBattles =
\* battlesWon + battlesLost and totalBattles <= totalActions; an outcome
\* whose action is not fightMonster leaves totalBattles, battlesWon,
\* battlesLost, consecutiveWins, consecutiveLosses and bestWinStreak
\* unchanged.
C40_BattleCountersConsistent ==
    Updating =>
        /\ Updated.totalBattles = Updated.battlesWon + Updated.battlesLost
        /\ Updated.totalBattles <= Updated.totalActions
        /\ LastOutcome.action # "fightMonster" =>
              /\ Updated.totalBattles = call.input.totalBattles
              /\ Updated.battlesWon = call.input.battlesWon
              /\ Updated.battlesLost = call.input.battlesLost
              /\ Updated.consecutiveWins = call.input.consecutiveWins
              /\ Updated.consecutiveLosses = call.input.consecutiveLosses
              /\ Updated.bestWinStreak = call.input.bestWinStreak

\* a training recorded after two lost fights and a won one
C40_Witness ==
    /\ Updating
    /\ LastOutcome.action = "train"
    /\ Updated.totalActions = 4
    /\ Updated.totalBattles = 3
    /\ Updated.battlesLost = 2
    /\ Updated.consecutiveLosses = 2
    /\ Updated.bestWinStreak = 1

====
